---- MODULE Spec2Model ----
(***************************************************************************)
(* Storage engine: the record manager (RmFileHandle, RmScan), the disk     *)
(* manager (DiskManager), the catalog (SmManager) and the execution        *)
(* operators (sequential scan, nested-loop join, projection, sort, update). *)
(*                                                                         *)
(* A record file is a file header (page 0) and record pages 1, 2, ...      *)
(* Every record page holds a page header (next_free_page_no, num_records), *)
(* a bitmap and num_records_per_page fixed-width slots.  A record payload  *)
(* is modelled by a number: 0 is the zero-filled slot of a fresh page,     *)
(* 1..MaxPayload are the buffers callers pass in.                          *)
(***************************************************************************)
EXTENDS Integers, Sequences, FiniteSets, TLC

\* ---- bounds of the model ----
MaxN == 2          \* largest num_records_per_page a file is created with
MaxPages == 2      \* largest number of record pages a file grows to
MaxPayload == 2    \* payloads are 1..MaxPayload
MaxOverfull == 1   \* insert_record stops once a page counts N + MaxOverfull records
MaxFd == 1         \* the operating system hands out the descriptors 0..MaxFd
MaxRecs == 1       \* a table holds records out of 1..MaxRecs
MaxCalls == 2      \* write_log calls a thread makes
MaxLogSize == 2    \* write_log buffers hold 1..MaxLogSize bytes
MaxAlloc == 2      \* allocate_page stops at counter value MaxAlloc and after MaxAlloc numbers per file

\* ---- constants of the record manager ----
RM_NO_PAGE == -1
RM_FIRST_RECORD_PAGE == 1

VARIABLES
    file_hdr,       \* RmFileHandle::file_hdr_ (num_records_per_page, num_pages, first_free_page_no)
    pages,          \* record pages 1..num_pages-1: page_hdr, bitmap, slots
    scanning,       \* TRUE once an RmScan object exists
    rid_,           \* RmScan::rid_, the scan cursor
    pin_delta,      \* per page: fetch_page/new_page minus unpin_page calls made by the latest call
    last,           \* the latest call: operation, arguments, error raised, value returned
    live,           \* history: Rid -> payload of the records inserted and not yet deleted
    visited,        \* history: the Rids the current scan stopped on, in order
    fresh_inserts   \* history: number of calls so far if all were insert_record(buf), else -1

VARIABLES
    files,          \* the regular files that exist, as <<directory, name>>
    cwd,            \* the working directory of the process
    path2fd_,       \* DiskManager::path2fd_
    fd2path_,       \* DiskManager::fd2path_
    fd2pageno_,     \* DiskManager::fd2pageno_, one counter per descriptor 0..MAX_FD-1
    dm_last,        \* the latest DiskManager call: operation, arguments, error, value returned
    issued,         \* history: per path, the page numbers allocate_page handed out for the file
    opened_at       \* history: per path, Len(issued[path]) when the path was registered

VARIABLES
    th,             \* per thread: where it is in its DiskManager call, and the call's locals
    returned,       \* history: per descriptor, the page numbers the finished allocate_page calls returned
    log_fd_,        \* DiskManager::log_fd_
    log_file,       \* the bytes of the log file
    wl_done         \* history: the finished write_log calls: thread, call number, offset written at, size

VARIABLES
    dirs,           \* the database directories that exist below the start directory
    meta,           \* per database directory: the text of its DB_META file
    fdata,          \* per table file <<directory, name>>: the live records stored in it
    db_,            \* SmManager::db_ (name_, tabs_)
    fhs_,           \* SmManager::fhs_: table name -> open record-file handle
    ihs_,           \* SmManager::ihs_: index name -> open index handle
    crashed,        \* the process died (a null handle was dereferenced)
    sm_last,        \* the latest SmManager call: operation, arguments, error, what it did
    before_create,  \* history: catalog, handles, metadata text and files before the latest call if that was a successful create_table
    at_close        \* history: catalog and live records at the latest successful close_db

VARIABLES
    build,          \* which copy of AbstractExecutor is compiled in, what signed overflow does, what a read outside a record finds
    tables,         \* table name -> its record file as the operators' fh_ sees it (hdr, pages)
    index,          \* the entries <<key, rid>> of the table's secondary index
    exec,           \* the operator under consideration, its children nested in it
    yielded,        \* history: the records Next() handed to the consumer since the latest beginTuple(), in order
    earlier,        \* history: what was yielded before each further beginTuple(), one entry per restart
    ex_last         \* the latest operator call: operation, error raised, value returned

rm_vars == <<file_hdr, pages, scanning, rid_, pin_delta, last, live, visited,
             fresh_inserts>>

dm_vars == <<files, cwd, path2fd_, fd2path_, fd2pageno_, dm_last, issued, opened_at>>

th_vars == <<th, returned, log_fd_, log_file, wl_done>>

sm_vars == <<dirs, meta, fdata, db_, fhs_, ihs_, crashed, sm_last, before_create, at_close>>

ex_vars == <<build, tables, index, exec, yielded, earlier, ex_last>>

vars == <<rm_vars, dm_vars, th_vars, sm_vars, ex_vars>>

\* what the record-file calls leave alone
other_vars == <<dm_vars, th_vars, sm_vars, ex_vars>>

scan_vars == <<scanning, rid_, visited>>

Payloads == 1..MaxPayload
PageNos == 1..MaxPages

Rid(p, s) == [page_no |-> p, slot_no |-> s]
NoRid == Rid(RM_NO_PAGE, -1)

N == file_hdr.num_records_per_page

Min(S) == CHOOSE x \in S : \A y \in S : x <= y

\* ---- Bitmap (bit i of the page's bitmap bytes) ----
\* The bitmap occupies whole bytes, so bit N exists behind the N slot bits
\* whenever N is not a multiple of 8 (true of every N of the model).
Bitmap_is_set(bm, pos) == bm[pos]

Bitmap_set(bm, pos) == [bm EXCEPT ![pos] = TRUE]

Bitmap_reset(bm, pos) == [bm EXCEPT ![pos] = FALSE]

Bitmap_init(n) == [i \in 0..n |-> FALSE]

\* the first position after curr, below max_n, whose bit equals bit; max_n if none
Bitmap_next_bit(bit, bm, max_n, curr) ==
    LET c == {i \in (curr + 1)..(max_n - 1) : bm[i] = bit}
    IN  IF c = {} THEN max_n ELSE Min(c)

Bitmap_first_bit(bit, bm, max_n) == Bitmap_next_bit(bit, bm, max_n, -1)

\* ---- page cache accounting ----
ZeroPins == [p \in PageNos |-> 0]

fetch_page(pd, p) == [pd EXCEPT ![p] = @ + 1]

unpin_page(pd, p) == [pd EXCEPT ![p] = @ - 1]

\* ---- the record of a call ----
\* A call that raises records its operation and its error only.
Call(op, rid, buf, err, ret_rid, ret_val) ==
    [op |-> op, rid |-> rid, buf |-> buf, err |-> err,
     ret_rid |-> ret_rid, ret_val |-> ret_val,
     \* delete_record: the page it took a record from when the page counted N
     \* records (0 if none); insert_record: that page of the call just before
     freed |-> 0,
     \* insert_record: create_new_page_handle ran
     created |-> FALSE]

\* Rids callers pass in: any slot of any page number up to MaxPages (pages
\* that do not exist yet included), and every Rid an insert returned.
RidInputs ==
    {Rid(p, s) : p \in PageNos, s \in 0..(N - 1)} \cup DOMAIN live

\* RmFileHandle::fetch_page_handle raises PageNotExist for these
PageNotExist(page_no) == page_no >= file_hdr.num_pages

\* ---- DiskManager: names, descriptors ----
Paths == {"a", "b"}
Fds == 0..MaxFd
MAX_FD == MaxFd + 1
Root == "."
LOG_FILE_NAME == "LOG"

DmCall(op, path, fd, err, ret) ==
    [op |-> op, path |-> path, fd |-> fd, err |-> err, ret |-> ret]

\* the directory the process starts in holds no file
Fs_Init ==
    /\ files = {}
    /\ cwd = Root

\* DiskManager::DiskManager: every counter 0, nothing registered
DiskManager_Init ==
    /\ path2fd_ = <<>>
    /\ fd2path_ = <<>>
    /\ fd2pageno_ = [fd \in 0..(MAX_FD - 1) |-> 0]
    /\ dm_last = DmCall("DiskManager", "", -1, "ok", -1)
    /\ issued = [p \in Paths |-> <<>>]
    /\ opened_at = [p \in Paths |-> 0]
    /\ log_fd_ = -1

\* ---- threads calling into the disk manager ----
Threads == {"t1", "t2"}

Idle == [pc |-> "idle", calls |-> 0, fd |-> -1, page_no |-> -1, err |-> "ok",
         size |-> 0, st_size |-> 0]

Threads_Init ==
    /\ th = [t \in Threads |-> Idle]
    /\ returned = [fd \in 0..(MAX_FD - 1) |-> <<>>]
    /\ log_file = <<>>
    /\ wl_done = {}

\* ---- SmManager ----
NoSnapshot == [valid |-> FALSE]

SmCall(op, name, err, cwd_before, locked) ==
    [op |-> op, name |-> name, err |-> err, cwd_before |-> cwd_before,
     locked |-> locked]

EmptyDbMeta == [name_ |-> "", tabs_ |-> <<>>]

\* no database directory yet, no database open
SmManager_Init ==
    /\ dirs = {}
    /\ meta = <<>>
    /\ fdata = <<>>
    /\ db_ = EmptyDbMeta
    /\ fhs_ = <<>>
    /\ ihs_ = <<>>
    /\ crashed = FALSE
    /\ sm_last = SmCall("SmManager", "", "ok", Root, FALSE)
    /\ before_create = NoSnapshot
    /\ at_close = NoSnapshot

\* a record file just created
RmFile_Init ==
    /\ \E n \in 1..MaxN :
          file_hdr = [num_records_per_page |-> n, num_pages |-> 1,
                      first_free_page_no |-> RM_NO_PAGE]
    /\ pages = <<>>
    /\ scanning = FALSE
    /\ rid_ = NoRid
    /\ pin_delta = ZeroPins
    /\ last = Call("create_file", NoRid, 0, "ok", NoRid, 0)
    /\ live = <<>>
    /\ visited = <<>>
    /\ fresh_inserts = 0

\* ---- execution operators ----
ExCall(op, err, ret) == [op |-> op, err |-> err, ret |-> ret]

NoExecutor == [kind |-> "none"]

\* no operator constructed
Exec_Init ==
    /\ build = [abstract |-> "executor_abstract.h", overflow |-> "wraps", stray |-> 0]
    /\ tables = <<>>
    /\ index = {}
    /\ exec = NoExecutor
    /\ yielded = <<>>
    /\ earlier = <<>>
    /\ ex_last = ExCall("none", "ok", <<>>)

Init ==
    /\ Fs_Init
    /\ DiskManager_Init
    /\ Threads_Init
    /\ SmManager_Init
    /\ RmFile_Init
    /\ Exec_Init

\* RmPageHandle::get_slot: the bytes of slot s; behind the last slot the read
\* leaves the page's slot area and may return anything
SlotValues(pg, s) ==
    IF s < N THEN {pg.slots[s]} ELSE 0..MaxPayload

\* memcpy(get_slot(s), buf, record_size): behind the last slot the bytes land
\* outside the slot area of the page
WriteSlot(pg, s, buf) ==
    IF s < N THEN [pg EXCEPT !.slots[s] = buf] ELSE pg

\* ---- RmFileHandle::get_record ----
get_record(rid) ==
    /\ UNCHANGED <<file_hdr, pages, live, fresh_inserts, scan_vars>>
    /\ IF PageNotExist(rid.page_no)
       THEN /\ pin_delta' = ZeroPins
            /\ last' = Call("get_record", NoRid, 0, "PageNotExist", NoRid, 0)
       ELSE /\ pin_delta' = unpin_page(fetch_page(ZeroPins, rid.page_no), rid.page_no)
            /\ \E v \in SlotValues(pages[rid.page_no], rid.slot_no) :
                  last' = Call("get_record", rid, 0, "ok", NoRid, v)

\* create_new_page_handle that leaves first_free_page_no as it was
create_new_page_handle_unlisted(hdr, pgs) ==
    LET page_no == hdr.num_pages
        page == [next_free_page_no |-> hdr.first_free_page_no,
                 num_records |-> 0,
                 bitmap |-> Bitmap_init(hdr.num_records_per_page),
                 slots |-> [s \in 0..(hdr.num_records_per_page - 1) |-> 0]]
    IN  [hdr |-> [hdr EXCEPT !.num_pages = @ + 1],
         pages |-> Append(pgs, page),
         page_no |-> page_no]

\* ---- RmFileHandle::create_new_page_handle ----
\* The page cache hands out the next page number of the file, num_pages.
\* Returns the file header, the pages and the number of the pinned page.
create_new_page_handle(hdr, pgs) ==
    LET page_no == hdr.num_pages
        page == [next_free_page_no |-> hdr.first_free_page_no,
                 num_records |-> 0,
                 bitmap |-> Bitmap_init(hdr.num_records_per_page),
                 slots |-> [s \in 0..(hdr.num_records_per_page - 1) |-> 0]]
    IN  [hdr |-> [hdr EXCEPT !.num_pages = @ + 1, !.first_free_page_no = page_no],
         pages |-> Append(pgs, page),
         page_no |-> page_no]

\* ---- RmFileHandle::create_page_handle ----
create_page_handle(hdr, pgs) ==
    IF hdr.first_free_page_no = RM_NO_PAGE
    THEN create_new_page_handle(hdr, pgs)
    ELSE [hdr |-> hdr, pages |-> pgs, page_no |-> hdr.first_free_page_no]

\* release_page_handle that links the page behind the head of a non-empty list
release_page_handle_behind(hdr, pgs, page_no) ==
    IF hdr.first_free_page_no = RM_NO_PAGE
    THEN [hdr |-> [hdr EXCEPT !.first_free_page_no = page_no],
          pages |-> [pgs EXCEPT ![page_no].next_free_page_no = RM_NO_PAGE]]
    ELSE [hdr |-> hdr,
          pages |-> [pgs EXCEPT
             ![page_no].next_free_page_no = pgs[hdr.first_free_page_no].next_free_page_no,
             ![hdr.first_free_page_no].next_free_page_no = page_no]]

\* ---- RmFileHandle::release_page_handle ----
release_page_handle(hdr, pgs, page_no) ==
    [hdr |-> [hdr EXCEPT !.first_free_page_no = page_no],
     pages |-> [pgs EXCEPT ![page_no].next_free_page_no = hdr.first_free_page_no]]

\* the test "!Bitmap::is_set(bitmap, slot_no)" that never finds the record missing
record_absent_never(pgs, rid) == FALSE

\* delete_record, update_record: "if (!Bitmap::is_set(page_handle.bitmap, rid.slot_no))"
record_absent(pgs, rid) == ~Bitmap_is_set(pgs[rid.page_no].bitmap, rid.slot_no)

\* the test "Bitmap::is_set(bitmap, slot_no)" that never finds the slot taken
slot_occupied_never(pgs, rid) == FALSE

\* insert_record(rid, buf): "if (Bitmap::is_set(page_handle.bitmap, rid.slot_no))"
slot_occupied(pgs, rid) == Bitmap_is_set(pgs[rid.page_no].bitmap, rid.slot_no)

\* the free-list update both insert_record overloads make once the page is full
UnlinkIfFull(hdr, pg) ==
    IF pg.num_records = hdr.num_records_per_page
    THEN [hdr EXCEPT !.first_free_page_no = pg.next_free_page_no]
    ELSE hdr

\* ---- RmFileHandle::insert_record(char* buf, Context*) ----
insert_record(buf) ==
    LET h == create_page_handle(file_hdr, pages)
        p == h.page_no
        slot_no == Bitmap_first_bit(FALSE, h.pages[p].bitmap, N)
        pg == [WriteSlot(h.pages[p], slot_no, buf) EXCEPT
                  !.bitmap = Bitmap_set(@, slot_no),
                  !.num_records = @ + 1]
    IN  \* bound of the model: no page beyond MaxPages is created
        /\ file_hdr.first_free_page_no # RM_NO_PAGE \/ file_hdr.num_pages <= MaxPages
        \* bound of the model: num_records is capped
        /\ h.pages[p].num_records < N + MaxOverfull
        /\ pages' = [h.pages EXCEPT ![p] = pg]
        /\ file_hdr' = UnlinkIfFull(h.hdr, pg)
        /\ pin_delta' = unpin_page(fetch_page(ZeroPins, p), p)
        /\ last' = [Call("insert_record", NoRid, buf, "ok", Rid(p, slot_no), 0) EXCEPT
                        !.freed = IF last.op = "delete_record" THEN last.freed ELSE 0,
                        !.created = (h.hdr.num_pages # file_hdr.num_pages)]
        /\ live' = (Rid(p, slot_no) :> buf) @@ live
        /\ fresh_inserts' = IF fresh_inserts >= 0 THEN fresh_inserts + 1 ELSE -1
        /\ UNCHANGED scan_vars

\* ---- RmFileHandle::insert_record(const Rid& rid, char* buf) ----
insert_record_rid(rid, buf) ==
    IF PageNotExist(rid.page_no)
    THEN /\ pin_delta' = ZeroPins
         /\ last' = Call("insert_record_rid", NoRid, 0, "PageNotExist", NoRid, 0)
         /\ UNCHANGED <<file_hdr, pages, live, fresh_inserts, scan_vars>>
    ELSE IF slot_occupied(pages, rid)
    THEN /\ pin_delta' = unpin_page(fetch_page(ZeroPins, rid.page_no), rid.page_no)
         /\ last' = Call("insert_record_rid", NoRid, 0, "RecordNotFound", NoRid, 0)
         /\ UNCHANGED <<file_hdr, pages, live, fresh_inserts, scan_vars>>
    ELSE LET pg == [WriteSlot(pages[rid.page_no], rid.slot_no, buf) EXCEPT
                       !.bitmap = Bitmap_set(@, rid.slot_no),
                       !.num_records = @ + 1]
         IN  /\ pages' = [pages EXCEPT ![rid.page_no] = pg]
             /\ file_hdr' = UnlinkIfFull(file_hdr, pg)
             /\ pin_delta' = unpin_page(fetch_page(ZeroPins, rid.page_no), rid.page_no)
             /\ last' = Call("insert_record_rid", rid, buf, "ok", NoRid, 0)
             /\ live' = (rid :> buf) @@ live
             /\ fresh_inserts' = -1
             /\ UNCHANGED scan_vars

\* ---- RmFileHandle::delete_record ----
delete_record(rid) ==
    IF PageNotExist(rid.page_no)
    THEN /\ pin_delta' = ZeroPins
         /\ last' = Call("delete_record", NoRid, 0, "PageNotExist", NoRid, 0)
         /\ UNCHANGED <<file_hdr, pages, live, fresh_inserts, scan_vars>>
    ELSE IF record_absent(pages, rid)
    THEN /\ pin_delta' = unpin_page(fetch_page(ZeroPins, rid.page_no), rid.page_no)
         /\ last' = Call("delete_record", NoRid, 0, "RecordNotFound", NoRid, 0)
         /\ UNCHANGED <<file_hdr, pages, live, fresh_inserts, scan_vars>>
    ELSE LET pgs == [pages EXCEPT
                        ![rid.page_no].bitmap = Bitmap_reset(@, rid.slot_no),
                        ![rid.page_no].num_records = @ - 1]
             h == IF pgs[rid.page_no].num_records = N - 1
                  THEN release_page_handle(file_hdr, pgs, rid.page_no)
                  ELSE [hdr |-> file_hdr, pages |-> pgs]
         IN  /\ pages' = h.pages
             /\ file_hdr' = h.hdr
             /\ pin_delta' = unpin_page(fetch_page(ZeroPins, rid.page_no), rid.page_no)
             /\ last' = [Call("delete_record", rid, 0, "ok", NoRid, 0) EXCEPT
                             !.freed = IF pages[rid.page_no].num_records = N
                                       THEN rid.page_no ELSE 0]
             /\ live' = [r \in DOMAIN live \ {rid} |-> live[r]]
             /\ fresh_inserts' = -1
             /\ UNCHANGED scan_vars
     
\* ---- RmFileHandle::update_record ----
update_record(rid, buf) ==
    IF PageNotExist(rid.page_no)
    THEN /\ pin_delta' = ZeroPins
         /\ last' = Call("update_record", NoRid, 0, "PageNotExist", NoRid, 0)
         /\ UNCHANGED <<file_hdr, pages, live, fresh_inserts, scan_vars>>
    ELSE IF record_absent(pages, rid)
    THEN /\ pin_delta' = unpin_page(fetch_page(ZeroPins, rid.page_no), rid.page_no)
         /\ last' = Call("update_record", NoRid, 0, "RecordNotFound", NoRid, 0)
         /\ UNCHANGED <<file_hdr, pages, live, fresh_inserts, scan_vars>>
    ELSE /\ pages' = [pages EXCEPT ![rid.page_no] = WriteSlot(@, rid.slot_no, buf)]
         /\ pin_delta' = unpin_page(fetch_page(ZeroPins, rid.page_no), rid.page_no)
         /\ last' = Call("update_record", rid, buf, "ok", NoRid, 0)
         /\ live' = IF rid \in DOMAIN live THEN [live EXCEPT ![rid] = buf] ELSE live
         /\ fresh_inserts' = -1
         /\ UNCHANGED <<file_hdr, scan_vars>>

\* the loop of next() that keeps slot_no when it moves to the next page
RECURSIVE RmScan_next_keeps_slot(_, _, _)
RmScan_next_keeps_slot(rid, hdr, pgs) ==
    IF rid.page_no < hdr.num_pages
    THEN LET slot_no == Bitmap_next_bit(TRUE, pgs[rid.page_no].bitmap,
                                        hdr.num_records_per_page, rid.slot_no)
         IN  IF slot_no < hdr.num_records_per_page
             THEN [rid |-> Rid(rid.page_no, slot_no), fetched |-> <<rid.page_no>>]
             ELSE LET rest == RmScan_next_keeps_slot(
                                  Rid(rid.page_no + 1, rid.slot_no), hdr, pgs)
                  IN  [rid |-> rest.rid, fetched |-> <<rid.page_no>> \o rest.fetched]
    ELSE [rid |-> [rid EXCEPT !.page_no = RM_NO_PAGE], fetched |-> <<>>]

\* ---- RmScan::next ----
\* The loop of next(): from cursor rid, the cursor it ends on and the pages it
\* fetched on the way, in order.  No fetched page is unpinned.
RECURSIVE RmScan_next(_, _, _)
RmScan_next(rid, hdr, pgs) ==
    IF rid.page_no < hdr.num_pages
    THEN LET slot_no == Bitmap_next_bit(TRUE, pgs[rid.page_no].bitmap,
                                        hdr.num_records_per_page, rid.slot_no)
         IN  IF slot_no < hdr.num_records_per_page
             THEN [rid |-> Rid(rid.page_no, slot_no), fetched |-> <<rid.page_no>>]
             ELSE LET rest == RmScan_next(Rid(rid.page_no + 1, RM_NO_PAGE), hdr, pgs)
                  IN  [rid |-> rest.rid, fetched |-> <<rid.page_no>> \o rest.fetched]
    ELSE [rid |-> [rid EXCEPT !.page_no = RM_NO_PAGE], fetched |-> <<>>]

\* the pins a sequence of fetch_page calls takes
RECURSIVE FetchAll(_, _)
FetchAll(pd, fetched) ==
    IF fetched = <<>> THEN pd
    ELSE FetchAll(fetch_page(pd, Head(fetched)), Tail(fetched))

\* ---- RmScan::is_end ----
is_end == rid_.page_no = RM_NO_PAGE

\* ---- RmScan::RmScan ----
RmScan ==
    LET r == RmScan_next(Rid(RM_FIRST_RECORD_PAGE, RM_NO_PAGE), file_hdr, pages)
    IN  /\ scanning' = TRUE
        /\ rid_' = r.rid
        /\ pin_delta' = FetchAll(ZeroPins, r.fetched)
        /\ last' = Call("RmScan", NoRid, 0, "ok", r.rid, 0)
        /\ visited' = IF r.rid.page_no = RM_NO_PAGE THEN <<>> ELSE <<r.rid>>
        /\ UNCHANGED <<file_hdr, pages, live, fresh_inserts>>

\* ---- RmScan::next, called on a scan that is not at its end ----
next ==
    LET r == RmScan_next(rid_, file_hdr, pages)
    IN  /\ scanning
        /\ ~is_end
        /\ rid_' = r.rid
        /\ pin_delta' = FetchAll(ZeroPins, r.fetched)
        /\ last' = Call("next", NoRid, 0, "ok", r.rid, 0)
        /\ visited' = IF r.rid.page_no # RM_NO_PAGE
                      THEN Append(visited, r.rid) ELSE visited
        /\ UNCHANGED <<file_hdr, pages, live, fresh_inserts, scanning>>

\* ---- RmScan::~RmScan: the scan object is dropped ----
RmScan_destroy ==
    /\ scanning
    /\ scanning' = FALSE
    /\ rid_' = NoRid
    /\ visited' = <<>>
    /\ pin_delta' = ZeroPins
    /\ last' = Call("~RmScan", NoRid, 0, "ok", NoRid, 0)
    /\ UNCHANGED <<file_hdr, pages, live, fresh_inserts>>

\* Record-file calls and scans are not interleaved: a scan is constructed,
\* stepped and dropped with no record-file call in between.
Next ==
    \/ ~scanning /\ \E rid \in RidInputs : get_record(rid) /\ UNCHANGED other_vars
    \/ ~scanning /\ \E buf \in Payloads : insert_record(buf) /\ UNCHANGED other_vars
    \/ ~scanning /\ \E rid \in RidInputs, buf \in Payloads : insert_record_rid(rid, buf) /\ UNCHANGED other_vars
    \/ ~scanning /\ \E rid \in RidInputs : delete_record(rid) /\ UNCHANGED other_vars
    \/ ~scanning /\ \E rid \in RidInputs, buf \in Payloads : update_record(rid, buf) /\ UNCHANGED other_vars
    \/ RmScan /\ UNCHANGED other_vars
    \/ next /\ UNCHANGED other_vars
    \/ RmScan_destroy /\ UNCHANGED other_vars

Spec == Init /\ [][Next]_vars

\* ---- the calls of a file that is never written through insert_record(rid, buf) ----
PlainNext ==
    \/ ~scanning /\ \E rid \in RidInputs : get_record(rid) /\ UNCHANGED other_vars
    \/ ~scanning /\ \E buf \in Payloads : insert_record(buf) /\ UNCHANGED other_vars
    \/ ~scanning /\ \E rid \in RidInputs : delete_record(rid) /\ UNCHANGED other_vars
    \/ ~scanning /\ \E rid \in RidInputs, buf \in Payloads : update_record(rid, buf) /\ UNCHANGED other_vars
    \/ RmScan /\ UNCHANGED other_vars
    \/ next /\ UNCHANGED other_vars
    \/ RmScan_destroy /\ UNCHANGED other_vars

PlainSpec == Init /\ [][PlainNext]_vars

\* ======================= properties of the record file =======================

RecordPages == 1..(file_hdr.num_pages - 1)

\* the pages met by following next_free_page_no from page_no, at most k of them
RECURSIVE Walk(_, _)
Walk(page_no, k) ==
    IF page_no = RM_NO_PAGE \/ k = 0 THEN {}
    ELSE {page_no} \cup Walk(pages[page_no].next_free_page_no, k - 1)

FreeListPages == Walk(file_hdr.first_free_page_no, Len(pages))

\* the set bits among the N slot bits of a page's bitmap
SetSlots(pg) == {s \in 0..(N - 1) : pg.bitmap[s]}

\* C1 (I3): a record page is reachable from first_free_page_no through
\* next_free_page_no if and only if it holds fewer than N records.
C1_FreeListIffNotFull ==
    \A p \in RecordPages : (p \in FreeListPages) <=> (pages[p].num_records < N)

\* C2 (I2): the num_records of every record page equals the number of set
\* bits of its bitmap, after failing calls too.
C2_NumRecordsIsPopcount ==
    \A p \in RecordPages : pages[p].num_records = Cardinality(SetSlots(pages[p]))

\* the Rids a scan stopped on, as a set
VisitedSet == {visited[i] : i \in 1..Len(visited)}

C4_GetReturnsLastWritten ==
    (last.op = "get_record" /\ last.err = "ok" /\ last.rid \in DOMAIN live)
        => last.ret_val = live[last.rid]

\* C5 (I6): every Rid insert_record(buf) returns and every Rid a scan stops on
\* has 0 <= slot_no < N and 1 <= page_no < num_pages.
RidInRange(rid) ==
    /\ 0 <= rid.slot_no /\ rid.slot_no < N
    /\ 1 <= rid.page_no /\ rid.page_no < file_hdr.num_pages

C5_RidsInRange ==
    /\ (last.op = "insert_record" /\ last.err = "ok") => RidInRange(last.ret_rid)
    /\ (scanning /\ ~is_end) => RidInRange(rid_)

\* C6: every record-file call and every scan step leaves the pin count of
\* every page as it was before the call, on normal and on error returns.
C6_PinsBalanced == pin_delta = ZeroPins

\* C7: the insert_record(buf) that directly follows a delete_record from a full
\* page P returns a Rid on P, at P's lowest clear slot, and creates no page.
C7_InsertReusesFreedPage ==
    (last.op = "insert_record" /\ last.freed # 0) =>
        /\ last.ret_rid.page_no = last.freed
        /\ last.ret_rid.slot_no < N
        /\ \A s \in 0..(last.ret_rid.slot_no - 1) : pages[last.freed].bitmap[s]
        /\ ~last.created

C7_Witness ==
    /\ last.op = "insert_record" /\ last.freed # 0
    /\ last.freed # Len(pages)
    /\ \E p \in FreeListPages : p # last.freed

\* C8: on a freshly created file the first N insert_record(buf) calls return
\* Rids on page 1 and create one record page, after the N-th the free list is
\* empty, and call N + 1 creates the second record page.
C8_FirstPageFillsFirst ==
    /\ (1 <= fresh_inserts /\ fresh_inserts <= N) =>
          /\ file_hdr.num_pages = 2
          /\ Cardinality(DOMAIN live) = fresh_inserts
          /\ \A r \in DOMAIN live : r.page_no = 1
          /\ last.op = "insert_record" => last.ret_rid.page_no = 1
    /\ fresh_inserts = N => file_hdr.first_free_page_no = RM_NO_PAGE
    /\ fresh_inserts = N + 1 =>
          /\ file_hdr.num_pages = 3
          /\ last.op = "insert_record" => (last.ret_rid.page_no = 2 /\ last.created)

C8_Witness == fresh_inserts = N + 1 /\ last.op = "insert_record"

\* C9: update_record or delete_record on a Rid whose bitmap bit is clear raises
\* RecordNotFound and leaves every page and the file header unchanged.
C9_MissingRecordNoChange ==
    [][ /\ (last'.op \in {"update_record", "delete_record"}
              /\ last'.err = "RecordNotFound")
           => UNCHANGED <<pages, file_hdr>>
        /\ (last'.op \in {"update_record", "delete_record"} /\ last'.err = "ok")
           => Bitmap_is_set(pages[last'.rid.page_no].bitmap, last'.rid.slot_no)
      ]_vars

C9_Witness ==
    /\ last.op = "delete_record" /\ last.err = "RecordNotFound"
    /\ DOMAIN live # {}

\* C10: insert_record(rid, buf) on a Rid whose bitmap bit is set raises
\* RecordNotFound and changes neither a page nor the file header; on a clear
\* bit it writes buf to exactly that slot, where get_record reads it back.
C10_InsertAtRid ==
    [][ /\ (last'.op = "insert_record_rid" /\ last'.err = "RecordNotFound")
           => UNCHANGED <<pages, file_hdr>>
        /\ (last'.op = "insert_record_rid" /\ last'.err = "ok") =>
              LET p == last'.rid.page_no
                  s == last'.rid.slot_no
              IN  /\ ~Bitmap_is_set(pages[p].bitmap, s)
                  /\ SlotValues(pages'[p], s) = {last'.buf}
                  /\ \A q \in DOMAIN pages : \A t \in 0..(N - 1) :
                        <<q, t>> # <<p, s>> => pages'[q].slots[t] = pages[q].slots[t]
      ]_vars

C10_Witness ==
    /\ last.op = "insert_record_rid" /\ last.err = "RecordNotFound"
    /\ DOMAIN live # {}

\* ============================ the disk manager ============================
\* A path names a file relative to the working directory.  The state of the
\* disk manager is passed around as a record so that the catalog can call
\* the same operations.

MapPut(m, k, v) == [x \in DOMAIN m \cup {k} |-> IF x = k THEN v ELSE m[x]]

MapErase(m, k) == [x \in DOMAIN m \ {k} |-> m[x]]

Range(f) == {f[x] : x \in DOMAIN f}

DM ==
    [files |-> files, path2fd_ |-> path2fd_, fd2path_ |-> fd2path_,
     fd2pageno_ |-> fd2pageno_]

DmResult(d, err, ret) == [d |-> d, err |-> err, ret |-> ret]

\* outcomes of the system calls a DiskManager operation makes: all succeed,
\* or the named one fails
SysOutcomes == {"ok", "open", "ftruncate", "close", "unlink"}

is_file(d, dir, path) == <<dir, path>> \in d.files

DiskManager_create_file(d, dir, path, sys) ==
    IF is_file(d, dir, path) THEN DmResult(d, "FileExistsError", -1)
    ELSE IF sys = "open" THEN DmResult(d, "UnixError", -1)
    \* ftruncate fails: the file is closed and unlinked again
    ELSE IF sys = "ftruncate" THEN DmResult(d, "UnixError", -1)
    \* close fails: the file stays
    ELSE IF sys = "close"
         THEN DmResult([d EXCEPT !.files = @ \cup {<<dir, path>>}], "UnixError", -1)
    ELSE DmResult([d EXCEPT !.files = @ \cup {<<dir, path>>}], "ok", -1)

DiskManager_destroy_file_unchecked(d, dir, path, sys) ==
    IF ~is_file(d, dir, path) THEN DmResult(d, "FileNotFoundError", -1)
    ELSE IF sys = "unlink" THEN DmResult(d, "UnixError", -1)
    ELSE DmResult([d EXCEPT !.files = @ \ {<<dir, path>>}], "ok", -1)

DiskManager_destroy_file(d, dir, path, sys) ==
    IF ~is_file(d, dir, path) THEN DmResult(d, "FileNotFoundError", -1)
    ELSE IF path \in DOMAIN d.path2fd_ THEN DmResult(d, "FileNotClosedError", -1)
    ELSE IF sys = "unlink" THEN DmResult(d, "UnixError", -1)
    ELSE DmResult([d EXCEPT !.files = @ \ {<<dir, path>>}], "ok", -1)

\* open(2) returns the lowest descriptor not in use, and fails when all are
FreeFds(d) == Fds \ DOMAIN d.fd2path_

DiskManager_open_file(d, dir, path, sys) ==
    IF path \in DOMAIN d.path2fd_ THEN DmResult(d, "ok", d.path2fd_[path])
    ELSE IF ~is_file(d, dir, path) THEN DmResult(d, "FileNotFoundError", -1)
    ELSE IF sys = "open" \/ FreeFds(d) = {} THEN DmResult(d, "UnixError", -1)
    ELSE LET fd == Min(FreeFds(d))
         IN  DmResult([d EXCEPT !.path2fd_ = MapPut(@, path, fd),
                                !.fd2path_ = MapPut(@, fd, path),
                                !.fd2pageno_[fd] = 0],
                      "ok", fd)

DiskManager_close_file(d, fd) ==
    IF fd \notin DOMAIN d.fd2path_ THEN DmResult(d, "FileNotOpenError", -1)
    ELSE DmResult([d EXCEPT !.path2fd_ = MapErase(@, d.fd2path_[fd]),
                            !.fd2path_ = MapErase(@, fd),
                            !.fd2pageno_[fd] = 0],
                  "ok", -1)

DiskManager_allocate_page_load(d, fd) ==
    IF fd < 0 \/ fd >= MAX_FD THEN DmResult(d, "InternalError", -1)
    ELSE DmResult(d, "ok", d.fd2pageno_[fd])

\* fetch_add(1): the old value is returned
DiskManager_allocate_page(d, fd) ==
    IF fd < 0 \/ fd >= MAX_FD THEN DmResult(d, "InternalError", -1)
    ELSE DmResult([d EXCEPT !.fd2pageno_[fd] = @ + 1], "ok", d.fd2pageno_[fd])

DiskManager_deallocate_page_rewinds(d, page_id) ==
    DmResult([d EXCEPT !.fd2pageno_ =
                 [fd \in DOMAIN @ |-> IF @[fd] = page_id + 1 THEN page_id ELSE @[fd]]],
             "ok", -1)

DiskManager_deallocate_page(d, page_id) == DmResult(d, "ok", -1)

\* ---- the calls of the disk manager ----
SetDM(d) ==
    /\ files' = d.files
    /\ path2fd_' = d.path2fd_
    /\ fd2path_' = d.fd2path_
    /\ fd2pageno_' = d.fd2pageno_

FdInputs == -1..MAX_FD

\* descriptors callers allocate pages for: the registered ones, and the two
\* next to the valid range
OpenFdInputs == DOMAIN fd2path_ \cup {-1, MAX_FD}

create_file(path, sys) ==
    LET r == DiskManager_create_file(DM, cwd, path, sys)
    IN  /\ SetDM(r.d)
        /\ dm_last' = DmCall("create_file", path, -1, r.err, r.ret)
        /\ UNCHANGED <<cwd, issued, opened_at>>

\* a file created later under the same path is another file
destroy_file(path, sys) ==
    LET r == DiskManager_destroy_file(DM, cwd, path, sys)
    IN  /\ SetDM(r.d)
        /\ dm_last' = DmCall("destroy_file", path, -1, r.err, r.ret)
        /\ issued' = IF r.err = "ok" THEN [issued EXCEPT ![path] = <<>>] ELSE issued
        /\ opened_at' = IF r.err = "ok" THEN [opened_at EXCEPT ![path] = 0] ELSE opened_at
        /\ UNCHANGED cwd

open_file(path, sys) ==
    LET r == DiskManager_open_file(DM, cwd, path, sys)
    IN  /\ SetDM(r.d)
        /\ dm_last' = DmCall("open_file", path, -1, r.err, r.ret)
        /\ opened_at' = IF r.err = "ok" /\ path \notin DOMAIN path2fd_
                        THEN [opened_at EXCEPT ![path] = Len(issued[path])]
                        ELSE opened_at
        /\ UNCHANGED <<cwd, issued>>

close_file(fd) ==
    LET r == DiskManager_close_file(DM, fd)
    IN  /\ SetDM(r.d)
        /\ dm_last' = DmCall("close_file", "", fd, r.err, r.ret)
        /\ UNCHANGED <<cwd, issued, opened_at>>

allocate_page(fd) ==
    LET r == DiskManager_allocate_page(DM, fd)
    IN  /\ fd \in 0..(MAX_FD - 1) => fd2pageno_[fd] < MaxAlloc
        /\ fd \in DOMAIN fd2path_ => Len(issued[fd2path_[fd]]) < MaxAlloc
        /\ SetDM(r.d)
        /\ dm_last' = DmCall("allocate_page", "", fd, r.err, r.ret)
        /\ issued' = IF r.err = "ok" /\ fd \in DOMAIN fd2path_
                     THEN [issued EXCEPT ![fd2path_[fd]] = Append(@, r.ret)]
                     ELSE issued
        /\ UNCHANGED <<cwd, opened_at>>

deallocate_page(page_id) ==
    LET r == DiskManager_deallocate_page(DM, page_id)
    IN  /\ SetDM(r.d)
        /\ dm_last' = DmCall("deallocate_page", "", -1, r.err, page_id)
        /\ UNCHANGED <<cwd, issued, opened_at>>

DiskNext ==
    \/ \E path \in Paths, sys \in SysOutcomes : create_file(path, sys) /\ UNCHANGED <<rm_vars, th_vars, sm_vars, ex_vars>>
    \/ \E path \in Paths, sys \in SysOutcomes : destroy_file(path, sys) /\ UNCHANGED <<rm_vars, th_vars, sm_vars, ex_vars>>
    \/ \E path \in Paths, sys \in SysOutcomes : open_file(path, sys) /\ UNCHANGED <<rm_vars, th_vars, sm_vars, ex_vars>>
    \/ \E fd \in FdInputs : close_file(fd) /\ UNCHANGED <<rm_vars, th_vars, sm_vars, ex_vars>>
    \/ \E fd \in OpenFdInputs : allocate_page(fd) /\ UNCHANGED <<rm_vars, th_vars, sm_vars, ex_vars>>
    \/ \E page_id \in 0..MaxAlloc : deallocate_page(page_id) /\ UNCHANGED <<rm_vars, th_vars, sm_vars, ex_vars>>
    \* the record file grows next to the disk manager's calls; the payload
    \* does not matter to the page count
    \/ \E buf \in {Min(Payloads)} : insert_record(buf) /\ UNCHANGED other_vars

DiskInit == Init /\ file_hdr.num_records_per_page = 1

DiskSpec == DiskInit /\ [][DiskNext]_vars

\* ===================== properties of the disk manager =====================

\* the numbers handed out for path p since it was registered
SinceOpen(p) == SubSeq(issued[p], opened_at[p] + 1, Len(issued[p]))

Handed(p) == Len(issued'[p]) = Len(issued[p]) + 1

\* C11 (as stated): num_pages of a record file never decreases, and
\* allocate_page never hands out, for a file, a page number it handed out
\* for that file before, whatever calls (close_file and open_file included)
\* came in between.
C11_PageNumbersNeverReused ==
    [][/\ file_hdr'.num_pages >= file_hdr.num_pages
       /\ \A p \in Paths :
             Handed(p) => issued'[p][Len(issued'[p])] \notin Range(issued[p])]_vars

\* C11 (amended): num_pages of a record file never decreases, and
\* allocate_page never hands out, for a file, a page number it handed out
\* for that file since the file was opened; deallocate_page hands nothing
\* back.  (open_file of a closed file restarts the numbering at 0.)
C11_NoReuseWhileOpen ==
    [][/\ file_hdr'.num_pages >= file_hdr.num_pages
       /\ \A p \in Paths :
             Handed(p) => issued'[p][Len(issued'[p])] \notin Range(SinceOpen(p))]_vars

C11_Witness ==
    /\ file_hdr.num_pages > 1
    /\ dm_last.op = "deallocate_page"
    /\ \E p \in Paths : opened_at[p] > 0 /\ Len(issued[p]) > opened_at[p]

\* a step that is the DiskManager call op (a call repeated with the same
\* outcome in the state it left changes nothing)
DmStep(op) == dm_last' # dm_last /\ dm_last'.op = op

ThSet(t, r) == th' = [th EXCEPT ![t] = r]

\* ---- allocate_page ----
InAllocate(fd) == {t \in Threads : th[t].pc \in {"fetch_add", "return"} /\ th[t].fd = fd}

allocate_page_call(t, fd) ==
    /\ th[t].pc = "idle"
    /\ fd \in 0..(MAX_FD - 1) =>
           Len(returned[fd]) + Cardinality(InAllocate(fd)) < MaxAlloc
    /\ ThSet(t, [th[t] EXCEPT !.pc = "fetch_add", !.fd = fd, !.err = "ok", !.page_no = -1])
    /\ UNCHANGED <<dm_vars, returned, log_fd_, log_file, wl_done>>

\* the range check and fd2pageno_[fd].fetch_add(1), one atomic operation
allocate_page_fetch_add(t) ==
    LET r == DiskManager_allocate_page(DM, th[t].fd)
    IN  /\ th[t].pc = "fetch_add"
        /\ SetDM(r.d)
        /\ ThSet(t, [th[t] EXCEPT !.pc = IF r.err = "ok" THEN "return" ELSE "idle",
                                  !.err = r.err, !.page_no = r.ret])
        /\ UNCHANGED <<cwd, dm_last, issued, opened_at, returned, log_fd_, log_file, wl_done>>

allocate_page_return(t) ==
    /\ th[t].pc = "return"
    /\ returned' = [returned EXCEPT ![th[t].fd] = Append(@, th[t].page_no)]
    /\ ThSet(t, [th[t] EXCEPT !.pc = "idle"])
    /\ UNCHANGED <<dm_vars, log_fd_, log_file, wl_done>>

AllocNext ==
    \/ \E t \in Threads, fd \in FdInputs : allocate_page_call(t, fd) /\ UNCHANGED <<rm_vars, sm_vars, ex_vars>>
    \/ \E t \in Threads : allocate_page_fetch_add(t) /\ UNCHANGED <<rm_vars, sm_vars, ex_vars>>
    \/ \E t \in Threads : allocate_page_return(t) /\ UNCHANGED <<rm_vars, sm_vars, ex_vars>>

AllocSpec == DiskInit /\ [][AllocNext]_vars

\* ---- write_log ----
\* byte i of the buffer of the n-th write_log call of thread t
LogBytes(t, n, size) == [i \in 1..size |-> <<t, n, i>>]

\* pwrite(fd, buf, size, offset) on a file of bytes f, offset <= Len(f)
pwrite(f, buf, offset) ==
    [i \in 1..(IF offset + Len(buf) > Len(f) THEN offset + Len(buf) ELSE Len(f)) |->
        IF i > offset /\ i <= offset + Len(buf) THEN buf[i - offset] ELSE f[i]]

\* if (log_fd_ == -1) log_fd_ = open_file(LOG_FILE_NAME)
write_log_call(t, size) ==
    LET r == IF log_fd_ = -1 THEN DiskManager_open_file(DM, cwd, LOG_FILE_NAME, "ok")
             ELSE DmResult(DM, "ok", log_fd_)
    IN  /\ th[t].pc = "idle"
        /\ th[t].calls < MaxCalls
        /\ SetDM(r.d)
        /\ log_fd_' = r.ret
        /\ ThSet(t, [th[t] EXCEPT !.pc = IF r.err = "ok" THEN "fstat" ELSE "idle",
                                  !.err = r.err, !.size = size, !.calls = @ + 1])
        /\ UNCHANGED <<cwd, dm_last, issued, opened_at, returned, log_file, wl_done>>

\* fstat(log_fd_, &st)
write_log_fstat(t) ==
    /\ th[t].pc = "fstat"
    /\ ThSet(t, [th[t] EXCEPT !.pc = "pwrite", !.st_size = Len(log_file)])
    /\ UNCHANGED <<dm_vars, returned, log_fd_, log_file, wl_done>>

\* pwrite(log_fd_, log_data, size, st.st_size)
write_log_pwrite(t) ==
    /\ th[t].pc = "pwrite"
    /\ log_file' = pwrite(log_file, LogBytes(t, th[t].calls, th[t].size), th[t].st_size)
    /\ wl_done' = wl_done \cup {[t |-> t, n |-> th[t].calls, offset |-> th[t].st_size,
                                 size |-> th[t].size]}
    /\ ThSet(t, [th[t] EXCEPT !.pc = "idle"])
    /\ UNCHANGED <<dm_vars, returned, log_fd_>>

LogNext ==
    \/ \E t \in Threads, size \in 1..MaxLogSize : write_log_call(t, size) /\ UNCHANGED <<rm_vars, sm_vars, ex_vars>>
    \/ \E t \in Threads : write_log_fstat(t) /\ UNCHANGED <<rm_vars, sm_vars, ex_vars>>
    \/ \E t \in Threads : write_log_pwrite(t) /\ UNCHANGED <<rm_vars, sm_vars, ex_vars>>

\* the log file exists: create_db made it
LogInit ==
    /\ files = {<<Root, LOG_FILE_NAME>>}
    /\ cwd = Root
    /\ DiskManager_Init
    /\ Threads_Init
    /\ SmManager_Init
    /\ RmFile_Init
    /\ Exec_Init
    /\ file_hdr.num_records_per_page = 1

LogSpec == LogInit /\ [][LogNext]_vars

\* ---- properties ----
\* the numbers fetched for fd so far: returned, or about to be
Fetched(fd) ==
    {returned[fd][i] : i \in DOMAIN returned[fd]}
        \cup {th[t].page_no : t \in {u \in InAllocate(fd) : th[u].pc = "return"}}

FetchCount(fd) ==
    Len(returned[fd]) + Cardinality({u \in InAllocate(fd) : th[u].pc = "return"})

\* C20: concurrent allocate_page(fd) calls never return the same page
\* number: the k calls that have fetched from the counter of fd, in whatever
\* interleaving, got exactly the numbers 0..k-1 (the counter starts at 0),
\* each once, whatever was allocated on other descriptors meanwhile.
C20_AllocateUnique ==
    \A fd \in 0..(MAX_FD - 1) :
        /\ Fetched(fd) = 0..(FetchCount(fd) - 1)
        /\ fd2pageno_[fd] = FetchCount(fd)

C20_Witness ==
    \E fd \in 0..(MAX_FD - 1), other \in 0..(MAX_FD - 1) :
        /\ fd # other
        /\ Len(returned[fd]) >= 2
        /\ returned[fd][1] > returned[fd][2]
        /\ Len(returned[other]) >= 1
        /\ \E t \in Threads : th[t].err = "InternalError"

\* C19: the log holds every buffer of a finished write_log call in full at
\* the place the call wrote it: no call overwrites a byte another wrote.
C19_LogHoldsEveryBuffer ==
    \A c \in wl_done :
        \A i \in 1..c.size : log_file[c.offset + i] = <<c.t, c.n, i>>

\* ============================== the catalog ==============================
\* SmManager on top of the disk manager.  Databases are directories below
\* the start directory; inside one live DB_META (its text is meta[dir]), LOG
\* and one record file per table.  Nested database directories are not
\* modelled: create_db is called from the start directory only.  Tables and
\* records are worked on, and close_db is called, while a database is open.

DbNames == {"db"}
TabNames == {"t1", "t2"}
TabSeq == <<"t1", "t2">>        \* std::map iterates in key order
RecIds == 1..MaxRecs

\* column definitions callers pass to create_table
ColDefInputs ==
    { <<[name |-> "c1", type |-> "INT", len |-> 4]>>,
      <<[name |-> "c1", type |-> "INT", len |-> 4],
        [name |-> "c2", type |-> "STRING", len |-> 8]>> }

\* ---- DbMeta and its text form ----
\* operator<< writes the name, the number of tables and, per table in key
\* order, its name, its columns and its indexes, token by token;
\* operator>> reads them back.
Numbers == 0..16

ParseInt(tok) == CHOOSE n \in Numbers : ToString(n) = tok

RECURSIVE Concat(_)
Concat(ss) == IF ss = <<>> THEN <<>> ELSE Head(ss) \o Concat(Tail(ss))

EncodeCol(c) ==
    <<c.tab_name, c.name, c.type, ToString(c.len), ToString(c.offset),
      IF c.index THEN "1" ELSE "0">>

EncodeTab(tab) ==
    <<tab.name, ToString(Len(tab.cols))>>
        \o Concat([i \in 1..Len(tab.cols) |-> EncodeCol(tab.cols[i])])
        \o <<ToString(Len(tab.indexes))>>

TabsInOrder(tabs) == SelectSeq(TabSeq, LAMBDA t : t \in DOMAIN tabs)

Encode(db) ==
    LET names == TabsInOrder(db.tabs_)
    IN  <<db.name_, ToString(Len(names))>>
            \o Concat([i \in 1..Len(names) |-> EncodeTab(db.tabs_[names[i]])])

DecodeCol(text, pos) ==
    [tab_name |-> text[pos], name |-> text[pos + 1], type |-> text[pos + 2],
     len |-> ParseInt(text[pos + 3]), offset |-> ParseInt(text[pos + 4]),
     index |-> text[pos + 5] = "1"]

\* the table whose text starts at pos, and the position behind it
DecodeTab(text, pos) ==
    LET n == ParseInt(text[pos + 1])
    IN  [tab |-> [name |-> text[pos],
                  cols |-> [i \in 1..n |-> DecodeCol(text, pos + 2 + 6 * (i - 1))],
                  indexes |-> <<>>],
         pos |-> pos + 2 + 6 * n + 1]

RECURSIVE DecodeTabs(_, _, _)
DecodeTabs(text, pos, k) ==
    IF k = 0 THEN <<>>
    ELSE LET r == DecodeTab(text, pos)
         IN  MapPut(DecodeTabs(text, r.pos, k - 1), r.tab.name, r.tab)

Decode(text) ==
    [name_ |-> text[1], tabs_ |-> DecodeTabs(text, 3, ParseInt(text[2]))]

is_table(db, tab_name) == tab_name \in DOMAIN db.tabs_

\* ---- RmManager: record files and their handles ----
\* A handle holds the descriptor and the file's live records; close_file
\* writes the records back before it closes the descriptor.
RmResult(d, fd_data, err, fh) == [d |-> d, fdata |-> fd_data, err |-> err, fh |-> fh]

NoHandle == [fd |-> -1, recs |-> {}]

RmManager_create_file(d, fd_data, dir, name, sys) ==
    LET r == DiskManager_create_file(d, dir, name, sys)
    IN  RmResult(r.d,
                 IF is_file(r.d, dir, name) /\ ~is_file(d, dir, name)
                 THEN MapPut(fd_data, <<dir, name>>, {}) ELSE fd_data,
                 r.err, NoHandle)

RmManager_open_file(d, fd_data, dir, name, sys) ==
    LET r == DiskManager_open_file(d, dir, name, sys)
    IN  RmResult(r.d, fd_data, r.err,
                 IF r.err = "ok" THEN [fd |-> r.ret, recs |-> fd_data[<<dir, name>>]]
                 ELSE NoHandle)

RmManager_close_file(d, fd_data, dir, name, fh, sys) ==
    IF sys = "write" THEN RmResult(d, fd_data, "InternalError", NoHandle)
    ELSE LET r == DiskManager_close_file(d, fh.fd)
         IN  RmResult(r.d,
                      IF r.err = "ok" THEN MapPut(fd_data, <<dir, name>>, fh.recs) ELSE fd_data,
                      r.err, NoHandle)

RmManager_destroy_file(d, fd_data, dir, name, sys) ==
    LET r == DiskManager_destroy_file(d, dir, name, sys)
    IN  RmResult(r.d,
                 IF r.err = "ok" THEN MapErase(fd_data, <<dir, name>>) ELSE fd_data,
                 r.err, NoHandle)

\* ---- SmManager ----
SetEnv(r) == SetDM(r.d) /\ fdata' = r.fdata

Emplace(m, k, v) == IF k \in DOMAIN m THEN m ELSE MapPut(m, k, v)

is_dir(db_name) == cwd = Root /\ db_name \in dirs

\* a database is open: open_db has loaded its name
DbOpen == db_.name_ # ""

\* std::ofstream ofs(DB_META_NAME); ofs << db
flush_meta(m, dir, db) == MapPut(m, dir, Encode(db))

Snapshot(db, live_recs, fhs, m, fs) ==
    [valid |-> TRUE, dir |-> cwd, tabs_ |-> db.tabs_, live |-> live_recs, fhs_ |-> fhs,
     meta |-> m, files |-> fs]

\* the system call of DiskManager::create_file that fails, if the failure
\* chosen for the call is one of them
CreateSys(failed) == IF failed \in {"open", "ftruncate", "close"} THEN failed ELSE "ok"

create_db(db_name, sys) ==
    /\ ~crashed
    /\ cwd = Root
    /\ before_create' = NoSnapshot
    /\ UNCHANGED <<fdata, db_, fhs_, ihs_, crashed, at_close>>
    /\ IF is_dir(db_name)
       THEN /\ sm_last' = SmCall("create_db", db_name, "DatabaseExistsError", cwd, FALSE)
            /\ UNCHANGED <<dirs, meta, files, path2fd_, fd2path_, fd2pageno_, cwd>>
       ELSE LET new_db == [name_ |-> db_name, tabs_ |-> <<>>]
                log == DiskManager_create_file(DM, db_name, LOG_FILE_NAME, CreateSys(sys))
            IN  /\ dirs' = dirs \cup {db_name}
                \* an ofstream that cannot open its file writes nothing and raises nothing
                /\ meta' = IF sys = "ofstream" THEN meta ELSE flush_meta(meta, db_name, new_db)
                /\ SetDM(log.d)
                \* chdir("..") is reached only when create_file returns
                /\ cwd' = IF log.err = "ok" THEN Root ELSE db_name
                /\ sm_last' = SmCall("create_db", db_name, log.err, cwd, FALSE)

RECURSIVE OpenAll(_, _, _, _, _)
OpenAll(names, d, fd_data, dir, fhs) ==
    IF names = <<>> THEN [d |-> d, fhs |-> fhs, err |-> "ok"]
    ELSE LET r == RmManager_open_file(d, fd_data, dir, Head(names), "ok")
         IN  IF r.err # "ok" THEN [d |-> r.d, fhs |-> fhs, err |-> r.err]
             ELSE OpenAll(Tail(names), r.d, fd_data, dir, Emplace(fhs, Head(names), r.fh))

open_db_skips_handles(names, d, fd_data, dir, fhs) ==
    IF names = <<>> THEN OpenAll(names, d, fd_data, dir, fhs)
    ELSE OpenAll(Tail(names), d, fd_data, dir, fhs)

\* for (auto& [table_name, table_info] : db_.tabs_) fhs_.emplace(...)
open_db_handles(names, d, fd_data, dir, fhs) == OpenAll(names, d, fd_data, dir, fhs)

open_db(db_name, sys) ==
    /\ ~crashed
    /\ before_create' = NoSnapshot
    /\ UNCHANGED <<dirs, meta, fdata, ihs_, crashed>>
    /\ IF ~is_dir(db_name)
       THEN /\ sm_last' = SmCall("open_db", db_name, "DatabaseNotFoundError", cwd, FALSE)
            /\ UNCHANGED <<files, path2fd_, fd2path_, fd2pageno_, cwd, db_, fhs_, at_close>>
       ELSE IF sys = "chdir"
       THEN /\ sm_last' = SmCall("open_db", db_name, "UnixError", cwd, FALSE)
            /\ UNCHANGED <<files, path2fd_, fd2path_, fd2pageno_, cwd, db_, fhs_, at_close>>
       ELSE LET \* ifs >> db_ reads nothing when DB_META is missing
                loaded == IF db_name \in DOMAIN meta THEN Decode(meta[db_name]) ELSE db_
                o == open_db_handles(TabsInOrder(loaded.tabs_), DM, fdata, db_name, fhs_)
            IN  /\ cwd' = db_name
                /\ db_' = loaded
                /\ fhs_' = o.fhs
                /\ SetDM(o.d)
                /\ at_close' = IF o.err = "ok" THEN NoSnapshot ELSE at_close
                /\ sm_last' = SmCall("open_db", db_name, o.err, cwd, FALSE)

RECURSIVE CloseAll(_, _, _, _, _)
CloseAll(names, d, fd_data, dir, fhs) ==
    IF names = <<>> THEN [d |-> d, fdata |-> fd_data, err |-> "ok"]
    ELSE LET r == RmManager_close_file(d, fd_data, dir, Head(names), fhs[Head(names)], "ok")
         IN  IF r.err # "ok" THEN [d |-> r.d, fdata |-> r.fdata, err |-> r.err]
             ELSE CloseAll(Tail(names), r.d, r.fdata, dir, fhs)

close_db_keeps_handles(fhs) == fhs

\* fhs_.clear()
close_db_clear(fhs) == <<>>

\* the live records of the tables of the catalog, as their handles (or, for
\* a table without handle, its file) hold them
LiveRecs ==
    [t \in DOMAIN db_.tabs_ |->
        IF t \in DOMAIN fhs_ THEN fhs_[t].recs ELSE fdata[<<cwd, t>>]]

close_db(sys) ==
    /\ ~crashed
    /\ DbOpen
    /\ before_create' = NoSnapshot
    /\ meta' = flush_meta(meta, cwd, db_)
    /\ UNCHANGED <<dirs, crashed>>
    /\ IF sys = "write" /\ fhs_ # <<>>
       THEN \* the first rm_manager_->close_file raises
            /\ sm_last' = SmCall("close_db", cwd, "InternalError", cwd, FALSE)
            /\ UNCHANGED <<files, path2fd_, fd2path_, fd2pageno_, cwd, fdata, db_, fhs_, ihs_, at_close>>
       ELSE LET c == CloseAll(TabsInOrder(fhs_), DM, fdata, cwd, fhs_)
            IN  /\ SetEnv(c)
                /\ db_' = EmptyDbMeta
                /\ fhs_' = close_db_clear(fhs_)
                \* the index handles are closed; ihs_ is not cleared
                /\ ihs_' = ihs_
                /\ cwd' = Root
                /\ at_close' = Snapshot(db_, LiveRecs, fhs_, meta', files)
                /\ sm_last' = SmCall("close_db", cwd, c.err, cwd, FALSE)

RECURSIVE Offset(_, _)
Offset(col_defs, i) == IF i = 1 THEN 0 ELSE Offset(col_defs, i - 1) + col_defs[i - 1].len

MakeTabMeta(tab_name, col_defs) ==
    [name |-> tab_name,
     cols |-> [i \in 1..Len(col_defs) |->
                 [tab_name |-> tab_name, name |-> col_defs[i].name,
                  type |-> col_defs[i].type, len |-> col_defs[i].len,
                  offset |-> Offset(col_defs, i), index |-> FALSE]],
     indexes |-> <<>>]

create_table_flushes_early(failed) == failed \in {"none", "open_file"}

\* flush_meta() is the last statement of create_table
create_table_flushes(failed) == failed = "none"

create_table(tab_name, col_defs, failed) ==
    /\ ~crashed
    /\ DbOpen
    /\ UNCHANGED <<dirs, cwd, ihs_, crashed, at_close>>
    /\ IF is_table(db_, tab_name)
       THEN /\ sm_last' = SmCall("create_table", tab_name, "TableExistsError", cwd, FALSE)
            /\ before_create' = NoSnapshot
            /\ UNCHANGED <<files, path2fd_, fd2path_, fd2pageno_, meta, fdata, db_, fhs_>>
       ELSE LET tab == MakeTabMeta(tab_name, col_defs)
                c == RmManager_create_file(DM, fdata, cwd, tab_name, CreateSys(failed))
                db1 == [db_ EXCEPT !.tabs_ = MapPut(@, tab_name, tab)]
                o == RmManager_open_file(c.d, c.fdata, cwd, tab_name,
                                         IF failed = "open_file" THEN "open" ELSE "ok")
                stage == IF c.err # "ok" THEN "create_file"
                         ELSE IF o.err # "ok" THEN "open_file" ELSE "none"
            IN  /\ SetEnv(IF stage = "create_file" THEN c ELSE o)
                /\ db_' = IF stage = "create_file" THEN db_ ELSE db1
                /\ fhs_' = IF stage = "none" THEN Emplace(fhs_, tab_name, o.fh) ELSE fhs_
                /\ meta' = IF create_table_flushes(stage) THEN flush_meta(meta, cwd, db1) ELSE meta
                /\ sm_last' = SmCall("create_table", tab_name,
                                     IF stage = "create_file" THEN c.err ELSE o.err, cwd, FALSE)
                /\ before_create' = IF stage = "none"
                                    THEN Snapshot(db_, LiveRecs, fhs_, meta, files)
                                    ELSE NoSnapshot

drop_table_locks_first(db, tab_name, context) == context

\* the lock is requested behind the TableNotFound check, if a Context is given
drop_table_locks(db, tab_name, context) == context /\ is_table(db, tab_name)

drop_table(tab_name, context, failed) ==
    /\ ~crashed
    /\ DbOpen
    /\ before_create' = NoSnapshot
    /\ UNCHANGED <<dirs, cwd, ihs_, at_close>>
    /\ LET locked == drop_table_locks(db_, tab_name, context)
       IN  IF ~is_table(db_, tab_name)
           THEN /\ sm_last' = SmCall("drop_table", tab_name, "TableNotFoundError", cwd, locked)
                /\ UNCHANGED <<files, path2fd_, fd2path_, fd2pageno_, meta, fdata, db_, fhs_, crashed>>
           ELSE IF context /\ tab_name \notin DOMAIN fhs_
           THEN \* fhs_[tab_name] is a null handle: GetFd() dereferences it
                /\ crashed' = TRUE
                /\ sm_last' = SmCall("drop_table", tab_name, "crash", cwd, FALSE)
                /\ UNCHANGED <<files, path2fd_, fd2path_, fd2pageno_, meta, fdata, db_, fhs_>>
           ELSE LET cl == IF tab_name \in DOMAIN fhs_
                          THEN RmManager_close_file(DM, fdata, cwd, tab_name, fhs_[tab_name],
                                                    IF failed = "write" THEN "write" ELSE "ok")
                          ELSE RmResult(DM, fdata, "ok", NoHandle)
                    de == RmManager_destroy_file(cl.d, cl.fdata, cwd, tab_name,
                                                 IF failed = "unlink" THEN "unlink" ELSE "ok")
                    stage == IF cl.err # "ok" THEN "close_file"
                             ELSE IF de.err # "ok" THEN "destroy_file" ELSE "none"
                    db1 == [db_ EXCEPT !.tabs_ = MapErase(@, tab_name)]
                IN  /\ SetEnv(IF stage = "close_file" THEN cl ELSE de)
                    /\ fhs_' = IF stage = "close_file" THEN fhs_ ELSE MapErase(fhs_, tab_name)
                    /\ db_' = IF stage = "none" THEN db1 ELSE db_
                    /\ meta' = IF stage = "none" THEN flush_meta(meta, cwd, db1) ELSE meta
                    /\ sm_last' = SmCall("drop_table", tab_name,
                                         IF stage = "close_file" THEN cl.err ELSE de.err,
                                         cwd, locked)
                    /\ UNCHANGED crashed

\* ---- record operations on an open table ----
fh_insert_record(tab_name, rec) ==
    /\ ~crashed
    /\ DbOpen
    /\ tab_name \in DOMAIN fhs_
    /\ rec \notin fhs_[tab_name].recs
    /\ fhs_' = [fhs_ EXCEPT ![tab_name].recs = @ \cup {rec}]
    /\ sm_last' = SmCall("insert_record", tab_name, "ok", cwd, FALSE)
    /\ before_create' = NoSnapshot
    /\ UNCHANGED <<files, path2fd_, fd2path_, fd2pageno_, cwd, dirs, meta, fdata,
                   db_, ihs_, crashed, at_close>>

fh_delete_record(tab_name, rec) ==
    /\ ~crashed
    /\ DbOpen
    /\ tab_name \in DOMAIN fhs_
    /\ rec \in fhs_[tab_name].recs
    /\ fhs_' = [fhs_ EXCEPT ![tab_name].recs = @ \ {rec}]
    /\ sm_last' = SmCall("delete_record", tab_name, "ok", cwd, FALSE)
    /\ before_create' = NoSnapshot
    /\ UNCHANGED <<files, path2fd_, fd2path_, fd2pageno_, cwd, dirs, meta, fdata,
                   db_, ihs_, crashed, at_close>>

sm_rest == <<rm_vars, th_vars, dm_last, issued, opened_at, ex_vars>>

CatalogNext ==
    \/ \E db_name \in DbNames, sys \in {"ok", "ofstream", "open", "ftruncate", "close"} :
          create_db(db_name, sys) /\ UNCHANGED sm_rest
    \/ \E db_name \in DbNames, sys \in {"ok", "chdir"} :
          open_db(db_name, sys) /\ UNCHANGED sm_rest
    \/ \E sys \in {"ok", "write"} : close_db(sys) /\ UNCHANGED sm_rest
    \/ \E tab_name \in TabNames, col_defs \in ColDefInputs,
          failed \in {"none", "open", "ftruncate", "close", "open_file"} :
          create_table(tab_name, col_defs, failed) /\ UNCHANGED sm_rest
    \/ \E tab_name \in TabNames, context \in BOOLEAN, failed \in {"none", "write", "unlink"} :
          drop_table(tab_name, context, failed) /\ UNCHANGED sm_rest
    \/ \E tab_name \in TabNames, rec \in RecIds :
          fh_insert_record(tab_name, rec) /\ UNCHANGED sm_rest
    \/ \E tab_name \in TabNames, rec \in RecIds :
          fh_delete_record(tab_name, rec) /\ UNCHANGED sm_rest

CatalogSpec == DiskInit /\ [][CatalogNext]_vars

\* ======================== properties of the catalog ========================

\* a step that is the SmManager call op
SmStep(op) == sm_last'.op = op /\ UNCHANGED sm_rest

C13_CreateDropRestores ==
    [][(/\ SmStep("drop_table")
        /\ sm_last'.err = "ok"
        /\ sm_last.op = "create_table"
        /\ sm_last.name = sm_last'.name
        /\ before_create.valid)
       => /\ db_'.tabs_ = before_create.tabs_
          /\ fhs_' = before_create.fhs_
          /\ meta' = before_create.meta
          /\ files' = before_create.files]_vars

C15_CreateDbRestoresCwd ==
    sm_last.op = "create_db" => cwd = sm_last.cwd_before

\* C16: create_table of a name in the catalog raises TableExists and
\* drop_table of a name not in the catalog raises TableNotFound; either
\* leaves the table metadata map, the handle maps, the text of DB_META and
\* the files as they were and requests no lock.
C16_ExistsNotFoundNoChange ==
    [][(\/ SmStep("create_table") /\ sm_last'.name \in DOMAIN db_.tabs_
        \/ SmStep("drop_table") /\ sm_last'.name \notin DOMAIN db_.tabs_)
       => /\ sm_last'.err = IF sm_last'.op = "create_table"
                            THEN "TableExistsError" ELSE "TableNotFoundError"
          /\ db_' = db_
          /\ fhs_' = fhs_
          /\ ihs_' = ihs_
          /\ meta' = meta
          /\ files' = files
          /\ ~sm_last'.locked]_vars

C16_Witness ==
    /\ sm_last.op = "drop_table"
    /\ sm_last.err = "TableNotFoundError"
    /\ db_.tabs_ # <<>>
    /\ fhs_ # <<>>

\* C17: a create_table or drop_table that raises leaves the text of DB_META
\* as the last successful mutation wrote it.
C17_ErrorKeepsDiskMeta ==
    [][((SmStep("create_table") \/ SmStep("drop_table")) /\ sm_last'.err # "ok")
       => meta' = meta]_vars

C17_Witness ==
    /\ sm_last.op = "create_table"
    /\ sm_last.err = "UnixError"
    /\ sm_last.name \in DOMAIN db_.tabs_
    /\ cwd \in DOMAIN meta
    /\ meta[cwd] # Encode(db_)

\* ======================= execution operators =======================
\* A record is a sequence of cells.  A cell stands for the four bytes of an
\* INT or of a FLOAT, or for one character of a STRING; the lengths and
\* offsets of columns count cells.  An INT cell holds the integer, a FLOAT
\* cell holds the float as a number of halves (3 is 1.5), a STRING cell holds
\* a character code (0 is NUL).
INT_MAX == 2147483647
INT_MIN == (-INT_MAX) - 1

ColTypes == {"TYPE_INT", "TYPE_FLOAT", "TYPE_STRING"}
CompOps == {"OP_EQ", "OP_NE", "OP_LT", "OP_GT", "OP_LE", "OP_GE"}

TabCol(tab_name, col_name) == [tab_name |-> tab_name, col_name |-> col_name]

ColMeta(tab_name, name, type, len, offset) ==
    [tab_name |-> tab_name, name |-> name, type |-> type, len |-> len,
     offset |-> offset]

Value(type, raw) == [type |-> type, raw |-> raw]

\* Condition with a constant on the right
CondVal(lhs_col, op, rhs_val) ==
    [lhs_col |-> lhs_col, op |-> op, is_rhs_val |-> TRUE, rhs_val |-> rhs_val,
     rhs_col |-> TabCol("", "")]

\* Condition with a column on the right
CondCol(lhs_col, op, rhs_col) ==
    [lhs_col |-> lhs_col, op |-> op, is_rhs_val |-> FALSE,
     rhs_val |-> Value("TYPE_INT", <<0>>), rhs_col |-> rhs_col]

\* std::find_if over the columns: the position of the first column with the
\* table and column name of target, 0 for end()
find_col(rec_cols, target) ==
    LET hits == {i \in 1..Len(rec_cols) :
                    /\ rec_cols[i].tab_name = target.tab_name
                    /\ rec_cols[i].name = target.col_name}
    IN  IF hits = {} THEN 0 ELSE Min(hits)

\* rec->data + col.offset, read over col.len cells
ColData(rec, col) == SubSeq(rec, col.offset + 1, col.offset + col.len)

Order(a, b) == IF a < b THEN -1 ELSE IF a > b THEN 1 ELSE 0

\* a - b lies in the range of int (decided without leaving that range)
SubFits(a, b) == IF b >= 0 THEN a >= INT_MIN + b ELSE a <= INT_MAX + b

\* *(int*)lhs - *(int*)rhs.  A difference outside int is signed overflow:
\* the build either wraps it modulo 2^32 or, compiled on the assumption that
\* overflow does not happen, keeps the sign of the true difference.
IntSub(a, b) ==
    IF SubFits(a, b) THEN a - b
    ELSE IF build.overflow = "wraps"
         THEN IF b >= 0 THEN ((a - INT_MIN) + (INT_MAX - b)) + 1
                        ELSE ((a - INT_MAX) + (INT_MIN - b)) - 1
         ELSE IF b >= 0 THEN INT_MIN ELSE INT_MAX

\* float diff = l - r; cmp = (diff > 0) ? 1 : (diff < 0) ? -1 : 0
FloatSub(a, b) == Order(a, b)

\* memcmp / string_view comparison of two character sequences of one length
RECURSIVE StrCmp(_, _)
StrCmp(l, r) ==
    IF l = <<>> \/ r = <<>> THEN 0
    ELSE IF Head(l) # Head(r) THEN Order(Head(l), Head(r))
    ELSE StrCmp(Tail(l), Tail(r))

\* static_cast<float>(int): exact for the integers of magnitude up to 2^24,
\* which are the ones compared with or assigned to a FLOAT here
static_cast_float(i) == 2 * i

\* static_cast<int>(float): truncation towards zero
static_cast_int(f) == IF f >= 0 THEN f \div 2 ELSE -((-f) \div 2)

\* the switch over cond.op
OpHolds(op, cmp) ==
    CASE op = "OP_EQ" -> cmp = 0
      [] op = "OP_NE" -> cmp # 0
      [] op = "OP_LT" -> cmp < 0
      [] op = "OP_GT" -> cmp > 0
      [] op = "OP_LE" -> cmp <= 0
      [] op = "OP_GE" -> cmp >= 0

EvalOk(val) == [err |-> "ok", val |-> val]
EvalErr(err) == [err |-> err, val |-> FALSE]

\* the operands of a condition over one record: get_col for the left column,
\* the constant or get_col for the right one
Operands(rec_cols, cond, rec) ==
    LET l == find_col(rec_cols, cond.lhs_col)
        r == find_col(rec_cols, cond.rhs_col)
    IN  IF l = 0 THEN [err |-> "ColumnNotFoundError"]
        ELSE IF cond.is_rhs_val
        THEN [err |-> "ok", lhs_type |-> rec_cols[l].type,
              lhs_data |-> ColData(rec, rec_cols[l]),
              rhs_type |-> cond.rhs_val.type, rhs_data |-> cond.rhs_val.raw]
        ELSE IF r = 0 THEN [err |-> "ColumnNotFoundError"]
        ELSE [err |-> "ok", lhs_type |-> rec_cols[l].type,
              lhs_data |-> ColData(rec, rec_cols[l]),
              rhs_type |-> rec_cols[r].type,
              rhs_data |-> ColData(rec, rec_cols[r])]

is_numeric_type(type) == type \in {"TYPE_INT", "TYPE_FLOAT"}

\* AbstractExecutor::convert followed by the read of float_val
Promoted(type, cell) == IF type = "TYPE_INT" THEN static_cast_float(cell) ELSE cell

\* ---- AbstractExecutor::eval_cond (executor_abstract.h), behind the operands ----
PromotingCompare(op, lhs_type, lhs_data, rhs_type, rhs_data) ==
    LET is_numeric == is_numeric_type(lhs_type) /\ is_numeric_type(rhs_type)
    IN  IF lhs_type # rhs_type /\ ~is_numeric
        THEN EvalErr("IncompatibleTypeError")
        ELSE IF is_numeric
        THEN IF lhs_type = "TYPE_INT" /\ rhs_type = "TYPE_INT"
             THEN EvalOk(OpHolds(op, Order(lhs_data[1], rhs_data[1])))
             ELSE EvalOk(OpHolds(op, Order(Promoted(lhs_type, lhs_data[1]),
                                           Promoted(rhs_type, rhs_data[1]))))
        ELSE EvalOk(OpHolds(op, StrCmp(lhs_data, rhs_data)))

\* ---- SeqScanExecutor::eval_cond, behind the operands; the same statements
\* make up eval_cond of the other copy of AbstractExecutor and eval_join_cond ----
SubtractingCompare(op, lhs_type, lhs_data, rhs_type, rhs_data) ==
    IF lhs_type # rhs_type
    THEN EvalErr("IncompatibleTypeError")
    ELSE IF lhs_type = "TYPE_INT"
    THEN EvalOk(OpHolds(op, IntSub(lhs_data[1], rhs_data[1])))
    ELSE IF lhs_type = "TYPE_FLOAT"
    THEN EvalOk(OpHolds(op, FloatSub(lhs_data[1], rhs_data[1])))
    ELSE EvalOk(OpHolds(op, StrCmp(lhs_data, rhs_data)))

\* ---- SeqScanExecutor::eval_cond (private, hides the inherited one) ----
SeqScanExecutor_eval_cond(rec_cols, cond, rec) ==
    LET o == Operands(rec_cols, cond, rec)
    IN  IF o.err # "ok" THEN EvalErr(o.err)
        ELSE SubtractingCompare(cond.op, o.lhs_type, o.lhs_data, o.rhs_type, o.rhs_data)

\* ---- AbstractExecutor::eval_cond, in the copy the build compiles ----
AbstractExecutor_eval_cond(rec_cols, cond, rec) ==
    LET o == Operands(rec_cols, cond, rec)
    IN  IF o.err # "ok" THEN EvalErr(o.err)
        ELSE IF build.abstract = "executor_abstract.h"
        THEN PromotingCompare(cond.op, o.lhs_type, o.lhs_data, o.rhs_type, o.rhs_data)
        ELSE SubtractingCompare(cond.op, o.lhs_type, o.lhs_data, o.rhs_type, o.rhs_data)

\* ---- eval_conds: the conditions in order, stopping at the first that fails or raises ----
RECURSIVE SeqScanExecutor_eval_conds(_, _, _)
SeqScanExecutor_eval_conds(rec_cols, conds, rec) ==
    IF conds = <<>> THEN EvalOk(TRUE)
    ELSE LET e == SeqScanExecutor_eval_cond(rec_cols, Head(conds), rec)
         IN  IF e.err # "ok" \/ ~e.val THEN e
             ELSE SeqScanExecutor_eval_conds(rec_cols, Tail(conds), rec)

RECURSIVE AbstractExecutor_eval_conds(_, _, _)
AbstractExecutor_eval_conds(rec_cols, conds, rec) ==
    IF conds = <<>> THEN EvalOk(TRUE)
    ELSE LET e == AbstractExecutor_eval_cond(rec_cols, Head(conds), rec)
         IN  IF e.err # "ok" \/ ~e.val THEN e
             ELSE AbstractExecutor_eval_conds(rec_cols, Tail(conds), rec)

\* ---- the comparator handed to std::sort (execution_sort.h): a before b ----
SortExecutor_less(type, is_desc, a, b) ==
    LET cmp == IF type = "TYPE_INT" THEN IntSub(a[1], b[1])
               ELSE IF type = "TYPE_FLOAT" THEN FloatSub(a[1], b[1])
               ELSE StrCmp(a, b)
    IN  IF is_desc THEN cmp > 0 ELSE cmp < 0

\* ---- SortExecutor::cmp of the selection variant, for two records: a before b ----
SortExecutor_cmp(type, is_desc, a, b) ==
    IF type = "TYPE_STRING"
    THEN IF is_desc THEN StrCmp(a, b) > 0 ELSE StrCmp(a, b) < 0
    ELSE IF is_desc THEN a[1] > b[1] ELSE a[1] < b[1]

\* the cell at position k of a record buffer (k counts from 0); a position
\* outside the buffer is a read of foreign memory
CellAt(rec, k) == IF k >= 0 /\ k < Len(rec) THEN rec[k + 1] ELSE build.stray

CellsAt(rec, k, len) == [i \in 1..len |-> CellAt(rec, k + i - 1)]

\* eval_join_cond: an operand column is looked up among the left child's
\* columns, then among the right child's own columns, whose offsets it
\* lowers by left_->tupleLen()
JoinOperand(left_cols, right_cols, left_len, col, left_rec, right_rec) ==
    LET l == find_col(left_cols, col)
        r == find_col(right_cols, col)
    IN  IF l # 0
        THEN [found |-> TRUE, type |-> left_cols[l].type,
              data |-> ColData(left_rec, left_cols[l])]
        ELSE IF r # 0
        THEN [found |-> TRUE, type |-> right_cols[r].type,
              data |-> CellsAt(right_rec, right_cols[r].offset - left_len,
                               right_cols[r].len)]
        ELSE [found |-> FALSE]

\* ---- NestedLoopJoinExecutor::eval_join_cond (part_002) ----
\* Conditions on STRING operands are not among the inputs.
eval_join_cond(left_cols, right_cols, left_len, cond, left_rec, right_rec) ==
    LET lhs == JoinOperand(left_cols, right_cols, left_len, cond.lhs_col,
                           left_rec, right_rec)
        rhs == IF cond.is_rhs_val
               THEN [found |-> TRUE, type |-> cond.rhs_val.type,
                     data |-> cond.rhs_val.raw]
               ELSE JoinOperand(left_cols, right_cols, left_len, cond.rhs_col,
                                left_rec, right_rec)
    IN  IF ~lhs.found \/ ~rhs.found THEN EvalOk(FALSE)
        ELSE SubtractingCompare(cond.op, lhs.type, lhs.data, rhs.type, rhs.data)

RECURSIVE eval_join_conds(_, _, _, _, _, _)
eval_join_conds(left_cols, right_cols, left_len, conds, left_rec, right_rec) ==
    IF conds = <<>> THEN EvalOk(TRUE)
    ELSE LET e == eval_join_cond(left_cols, right_cols, left_len, Head(conds),
                                 left_rec, right_rec)
         IN  IF e.err # "ok" \/ ~e.val THEN e
             ELSE eval_join_conds(left_cols, right_cols, left_len, Tail(conds),
                                  left_rec, right_rec)

\* ---- one condition, one comparator call ----
\* The inputs: an operator class, a left operand (a column of the record) and
\* a right operand (a column of the record or a constant), each a type and a
\* cell, and a comparison.
IntCells == {INT_MIN, -1, 1, 2, INT_MAX}
SmallIntCells == {-1, 1, 2}
FloatCells == {-3, 2, 3}
StringCells == {0, 1}

Typed(type, cell) == [type |-> type, cell |-> cell]

CellsOf(type) ==
    CASE type = "TYPE_INT" -> IntCells
      [] type = "TYPE_FLOAT" -> FloatCells
      [] type = "TYPE_STRING" -> StringCells

Operand == UNION {{Typed(type, cell) : cell \in CellsOf(type)} : type \in ColTypes}

\* an INT meets a FLOAT only where static_cast_float is exact
OperandPairs ==
    {p \in Operand \X Operand :
        p[1].type # p[2].type =>
            /\ p[1].type = "TYPE_INT" => p[1].cell \in SmallIntCells
            /\ p[2].type = "TYPE_INT" => p[2].cell \in SmallIntCells}

\* the builds: which copy of AbstractExecutor, what an overflowing int
\* subtraction does
Builds ==
    [abstract : {"executor_abstract.h", "part_001"}, overflow : {"wraps", "exact"},
     stray : {0}]

\* the classes that evaluate conditions: SeqScanExecutor with its own
\* eval_cond, NestedLoopJoinExecutor of executor_nestedloop_join.h with the
\* inherited one, NestedLoopJoinExecutor of part_002 with eval_join_cond
CondClasses == {"SeqScanExecutor", "AbstractExecutor", "eval_join_cond"}

\* the record t(l, r) holding the two operands, and the condition on it
PairCols(l, r) ==
    <<ColMeta("t", "l", l.type, 1, 0), ColMeta("t", "r", r.type, 1, 1)>>

PairCond(op, is_rhs_val, r) ==
    IF is_rhs_val THEN CondVal(TabCol("t", "l"), op, Value(r.type, <<r.cell>>))
    ELSE CondCol(TabCol("t", "l"), op, TabCol("t", "r"))

\* the storage engine at rest while operators are looked at
StorageIdle ==
    /\ Fs_Init
    /\ DiskManager_Init
    /\ Threads_Init
    /\ SmManager_Init
    /\ RmFile_Init
    /\ file_hdr.num_records_per_page = 1

CmpInit ==
    /\ StorageIdle
    /\ build \in Builds
    /\ tables = <<>>
    /\ index = {}
    /\ yielded = <<>>
    /\ earlier = <<>>
    /\ ex_last = ExCall("none", "ok", <<>>)
    /\ \/ \E class \in CondClasses, p \in OperandPairs, op \in CompOps,
             is_rhs_val \in BOOLEAN :
             exec = [kind |-> "eval_cond", class |-> class, l |-> p[1], r |-> p[2],
                     op |-> op, is_rhs_val |-> is_rhs_val]
       \/ \E class \in {"execution_sort.h", "part_000"}, a \in IntCells,
             b \in IntCells, is_desc \in BOOLEAN :
             exec = [kind |-> "less", class |-> class,
                     l |-> Typed("TYPE_INT", a), r |-> Typed("TYPE_INT", b),
                     is_desc |-> is_desc]

\* one call of the class's eval_cond on the record <<l, r>>
eval_cond_call ==
    /\ exec.kind = "eval_cond"
    /\ ex_last.op = "none"
    /\ LET rec_cols == PairCols(exec.l, exec.r)
           cond == PairCond(exec.op, exec.is_rhs_val, exec.r)
           rec == <<exec.l.cell, exec.r.cell>>
           e == CASE exec.class = "SeqScanExecutor" ->
                         SeqScanExecutor_eval_cond(rec_cols, cond, rec)
                  [] exec.class = "AbstractExecutor" ->
                         AbstractExecutor_eval_cond(rec_cols, cond, rec)
                  [] exec.class = "eval_join_cond" ->
                         eval_join_cond(rec_cols, <<ColMeta("u", "y", "TYPE_INT", 1, 0)>>,
                                        2, cond, rec, <<0>>)
       IN  ex_last' = ExCall("eval_cond", e.err, e.val)
    /\ UNCHANGED <<rm_vars, dm_vars, th_vars, sm_vars, build, tables, index, exec, yielded, earlier>>

\* one call of the sort comparator on two records that hold one INT key each
less_call ==
    /\ exec.kind = "less"
    /\ ex_last.op = "none"
    /\ LET a == <<exec.l.cell>>
           b == <<exec.r.cell>>
           before == IF exec.class = "execution_sort.h"
                     THEN SortExecutor_less("TYPE_INT", exec.is_desc, a, b)
                     ELSE SortExecutor_cmp("TYPE_INT", exec.is_desc, a, b)
       IN  ex_last' = ExCall("less", "ok", before)
    /\ UNCHANGED <<rm_vars, dm_vars, th_vars, sm_vars, build, tables, index, exec, yielded, earlier>>

CmpNext ==
    \/ eval_cond_call
    \/ less_call

CmpSpec == CmpInit /\ [][CmpNext]_vars

\* C23: a condition on one INT and one FLOAT operand evaluates without error
\* to the comparison of the two as floats, the INT promoted; a condition on
\* operands of any other two different types raises IncompatibleType; in
\* every class that evaluates conditions.
C23_NumericTypesComparable ==
    ex_last.op = "eval_cond" =>
        LET lt == exec.l.type
            rt == exec.r.type
        IN  /\ ({lt, rt} = {"TYPE_INT", "TYPE_FLOAT"} =>
                   /\ ex_last.err = "ok"
                   /\ ex_last.ret = OpHolds(exec.op, Order(Promoted(lt, exec.l.cell),
                                                           Promoted(rt, exec.r.cell))))
            /\ ((lt # rt /\ {lt, rt} # {"TYPE_INT", "TYPE_FLOAT"}) =>
                   ex_last.err = "IncompatibleTypeError")

\* C24: on two INT operands every comparison operator, and the sort
\* comparator, returns the mathematical comparison of the two integers, also
\* where their difference does not fit in 32 bits.
C24_IntCompareIsExact ==
    /\ (/\ ex_last.op = "eval_cond"
        /\ exec.l.type = "TYPE_INT"
        /\ exec.r.type = "TYPE_INT") =>
           /\ ex_last.err = "ok"
           /\ ex_last.ret = OpHolds(exec.op, Order(exec.l.cell, exec.r.cell))
    /\ ex_last.op = "less" =>
           ex_last.ret = (IF exec.is_desc THEN exec.l.cell > exec.r.cell
                          ELSE exec.l.cell < exec.r.cell)

\* ======================= tables under the operators =======================
\* The record file of a table as an operator reaches it through fh_: the file
\* header and the record pages, every slot holding a record.  The free list
\* is not read by any operator and is left out.
ZeroRec(len) == [i \in 1..len |-> 0]

\* a record page from its N slot entries: <<>> for a slot with a clear bit
\* (zero-filled), else the record the slot holds
TablePage(n, len, entries) ==
    [bitmap |-> [i \in 0..n |-> i < n /\ entries[i + 1] # <<>>],
     slots |-> [i \in 0..(n - 1) |->
                   IF entries[i + 1] = <<>> THEN ZeroRec(len) ELSE entries[i + 1]]]

\* the record files of n slots a page and p record pages over the records recs
TableFiles(n, p, len, recs) ==
    {[hdr |-> [num_records_per_page |-> n, num_pages |-> p + 1],
      pages |-> [k \in 1..p |-> TablePage(n, len, slots[k])]] :
        slots \in [1..p -> [1..n -> recs \cup {<<>>}]]}

\* the Rids of the set bits of a file, and the live records in Rid order
LiveRids(fh) ==
    {r \in [page_no : 1..(fh.hdr.num_pages - 1),
            slot_no : 0..(fh.hdr.num_records_per_page - 1)] :
        fh.pages[r.page_no].bitmap[r.slot_no]}

RidBefore(r1, r2) ==
    \/ r1.page_no < r2.page_no
    \/ r1.page_no = r2.page_no /\ r1.slot_no < r2.slot_no

\* ---- RmFileHandle::get_record on the file of a table ----
\* get_record checks the page number only; a slot is read whether or not its
\* bit is set.
fh_get_record(fh, rid) ==
    IF rid.page_no >= fh.hdr.num_pages
    THEN [err |-> "PageNotExistError", rec |-> <<>>]
    ELSE [err |-> "ok", rec |-> fh.pages[rid.page_no].slots[rid.slot_no]]

\* ---- SeqScanExecutor ----
\* scan_ is the RmScan (made: it was constructed, rid_: its cursor), rid_ the
\* member the executor copies the cursor into.  The constructor leaves rid_
\* unset: its value before the first assignment is indeterminate.
SeqScanExecutor(tab_name, cols, conds, unset_rid) ==
    [tab_name_ |-> tab_name, cols_ |-> cols, fed_conds_ |-> conds,
     len_ |-> cols[Len(cols)].offset + cols[Len(cols)].len,
     scan_ |-> [made |-> FALSE, rid_ |-> NoRid], rid_ |-> unset_rid, err |-> "ok"]

\* the loop of beginTuple and nextTuple: from the scan's cursor on, stop at
\* the first record that satisfies the conditions
RECURSIVE SeqScanExecutor_seek(_, _)
SeqScanExecutor_seek(x, fh) ==
    IF x.scan_.rid_.page_no = RM_NO_PAGE THEN x
    ELSE LET at == [x EXCEPT !.rid_ = x.scan_.rid_]
             got == fh_get_record(fh, at.rid_)
             e == SeqScanExecutor_eval_conds(x.cols_, x.fed_conds_, got.rec)
         IN  IF got.err # "ok" THEN [at EXCEPT !.err = got.err]
             ELSE IF e.err # "ok" THEN [at EXCEPT !.err = e.err]
             ELSE IF e.val THEN at
             ELSE SeqScanExecutor_seek(
                      [at EXCEPT !.scan_.rid_ = RmScan_next(at.rid_, fh.hdr, fh.pages).rid],
                      fh)

\* ---- SeqScanExecutor::beginTuple ----
SeqScanExecutor_beginTuple(x, fh) ==
    SeqScanExecutor_seek(
        [x EXCEPT !.scan_ = [made |-> TRUE,
                             rid_ |-> RmScan_next(Rid(RM_FIRST_RECORD_PAGE, RM_NO_PAGE),
                                                  fh.hdr, fh.pages).rid],
                  !.err = "ok"],
        fh)

\* ---- SeqScanExecutor::nextTuple ----
\* On a scan at its end RmScan::next asks for page -1, which the page cache
\* does not have.
SeqScanExecutor_nextTuple(x, fh) ==
    IF ~x.scan_.made THEN [x EXCEPT !.err = "InternalError"]
    ELSE IF x.scan_.rid_.page_no = RM_NO_PAGE THEN [x EXCEPT !.err = "PageNotExistError"]
    ELSE SeqScanExecutor_seek(
             [x EXCEPT !.scan_.rid_ = RmScan_next(x.scan_.rid_, fh.hdr, fh.pages).rid],
             fh)

\* ---- SeqScanExecutor::is_end ----
SeqScanExecutor_is_end(x) == ~x.scan_.made \/ x.scan_.rid_.page_no = RM_NO_PAGE

\* ---- SeqScanExecutor::Next ----
SeqScanExecutor_Next(x, fh) == fh_get_record(fh, x.rid_)

\* the Rids of a set in ascending (page_no, slot_no) order
RECURSIVE RidsInOrder(_)
RidsInOrder(rids) ==
    IF rids = {} THEN <<>>
    ELSE LET first == CHOOSE r \in rids : \A o \in rids : o = r \/ RidBefore(r, o)
         IN  <<first>> \o RidsInOrder(rids \ {first})

\* ---- a sequential scan and its consumer ----
\* The consumer calls beginTuple, then, as long as is_end is false, Next and
\* nextTuple in turn.
MaxConds == 2      \* conditions in a conjunction

ScanCols == <<ColMeta("t", "a", "TYPE_INT", 1, 0)>>
ScanRecs == {<<INT_MIN>>, <<1>>, <<2>>}

\* a op 1 for every comparison
ScanConds == {CondVal(TabCol("t", "a"), op, Value("TYPE_INT", <<1>>)) : op \in CompOps}

Conjunctions(conds) == UNION {[1..k -> conds] : k \in 0..MaxConds}

Running(x, pc) == [kind |-> "SeqScanExecutor", x |-> x, pc |-> pc]

ScanInit ==
    /\ StorageIdle
    /\ build \in {b \in Builds : b.abstract = "executor_abstract.h"}
    /\ \E n \in 1..MaxN, p \in 0..MaxPages :
          \E fh \in TableFiles(n, p, 1, ScanRecs) : tables = [t |-> fh]
    /\ index = {}
    /\ \E conds \in Conjunctions(ScanConds) :
          exec = Running(SeqScanExecutor("t", ScanCols, conds, NoRid), "constructed")
    /\ yielded = <<>>
    /\ earlier = <<>>
    /\ ex_last = ExCall("none", "ok", <<>>)

ex_rest == <<rm_vars, dm_vars, th_vars, sm_vars, build, tables, index, earlier>>

\* where a call leaves the consumer
AfterCall(x) == IF x.err # "ok" THEN "raised" ELSE "positioned"

scan_beginTuple ==
    /\ exec.kind = "SeqScanExecutor"
    /\ exec.pc = "constructed"
    /\ LET x == SeqScanExecutor_beginTuple(exec.x, tables[exec.x.tab_name_])
       IN  /\ exec' = Running(x, AfterCall(x))
           /\ ex_last' = ExCall("beginTuple", x.err, <<>>)
    /\ UNCHANGED <<ex_rest, yielded>>

scan_Next ==
    /\ exec.kind = "SeqScanExecutor"
    /\ exec.pc = "positioned"
    /\ ~SeqScanExecutor_is_end(exec.x)
    /\ LET got == SeqScanExecutor_Next(exec.x, tables[exec.x.tab_name_])
       IN  /\ exec' = [exec EXCEPT !.pc = IF got.err # "ok" THEN "raised" ELSE "read"]
           /\ ex_last' = ExCall("Next", got.err, got.rec)
           /\ yielded' = IF got.err # "ok" THEN yielded
                         ELSE Append(yielded, [rid |-> exec.x.rid_, rec |-> got.rec])
    /\ UNCHANGED ex_rest

scan_nextTuple ==
    /\ exec.kind = "SeqScanExecutor"
    /\ exec.pc = "read"
    /\ LET x == SeqScanExecutor_nextTuple(exec.x, tables[exec.x.tab_name_])
       IN  /\ exec' = Running(x, AfterCall(x))
           /\ ex_last' = ExCall("nextTuple", x.err, <<>>)
    /\ UNCHANGED <<ex_rest, yielded>>

ScanNext ==
    \/ scan_beginTuple
    \/ scan_Next
    \/ scan_nextTuple

ScanSpec == ScanInit /\ [][ScanNext]_vars

\* a record satisfies a condition a op c on its INT column
Satisfies(rec, cond) == OpHolds(cond.op, Order(rec[1], cond.rhs_val.raw[1]))

SatisfiesAll(rec, conds) == \A i \in 1..Len(conds) : Satisfies(rec, conds[i])

\* the live records of table t that satisfy the scan's conditions, in Rid order
ScanExpected ==
    LET fh == tables["t"]
        rids == {r \in LiveRids(fh) :
                    SatisfiesAll(fh.pages[r.page_no].slots[r.slot_no], exec.x.fed_conds_)}
        order == RidsInOrder(rids)
    IN  [i \in 1..Len(order) |->
            [rid |-> order[i], rec |-> fh.pages[order[i].page_no].slots[order[i].slot_no]]]

\* C21: a sequential scan driven by beginTuple and then nextTuple until is_end
\* yields exactly the live records that satisfy every condition, each once,
\* in ascending Rid order; whenever is_end is false after beginTuple or
\* nextTuple, the record at the cursor satisfies the conditions.
C21_ScanYieldsMatches ==
    exec.kind = "SeqScanExecutor" =>
        /\ exec.pc # "raised"
        /\ yielded = SubSeq(ScanExpected, 1, Len(yielded))
        /\ (exec.pc = "positioned" /\ SeqScanExecutor_is_end(exec.x)) =>
               yielded = ScanExpected
        /\ (exec.pc = "positioned" /\ ~SeqScanExecutor_is_end(exec.x)) =>
               /\ exec.x.rid_ \in LiveRids(tables["t"])
               /\ SatisfiesAll(fh_get_record(tables["t"], exec.x.rid_).rec,
                               exec.x.fed_conds_)

\* ======================= nested-loop join =======================
\* The children are sequential scans.  The repository holds two copies of the
\* class: executor_nestedloop_join.h ("find_record") and part_002 ("Next").
ShiftCols(cols, by) == [i \in 1..Len(cols) |-> [cols[i] EXCEPT !.offset = @ + by]]

\* ---- NestedLoopJoinExecutor::NestedLoopJoinExecutor ----
NestedLoopJoinExecutor(copy, left, right, conds) ==
    [copy |-> copy, left_ |-> left, right_ |-> right,
     len_ |-> left.len_ + right.len_,
     cols_ |-> left.cols_ \o ShiftCols(right.cols_, left.len_),
     fed_conds_ |-> conds, isend |-> FALSE, err |-> "ok"]

Raise(j, err) == [j EXCEPT !.err = err]

LeftFile(j) == tables[j.left_.tab_name_]
RightFile(j) == tables[j.right_.tab_name_]

\* the left child has come to its end (l1); r1 is the right child after
\* right_->nextTuple(), l2 the left child after left_->beginTuple()
find_record_restart(j, r1, l2) ==
    IF r1.err # "ok" THEN Raise([j EXCEPT !.right_ = r1], r1.err)
    ELSE IF l2.err # "ok" THEN Raise([j EXCEPT !.left_ = l2, !.right_ = r1], l2.err)
    ELSE [j EXCEPT !.left_ = l2, !.right_ = r1]

\* l1 is the left child after left_->nextTuple()
find_record_advance(j, l1) ==
    IF l1.err # "ok" THEN Raise([j EXCEPT !.left_ = l1], l1.err)
    ELSE IF ~SeqScanExecutor_is_end(l1) THEN [j EXCEPT !.left_ = l1]
    ELSE find_record_restart([j EXCEPT !.left_ = l1],
                             SeqScanExecutor_nextTuple(j.right_, RightFile(j)),
                             SeqScanExecutor_beginTuple(l1, LeftFile(j)))

\* left_->nextTuple(); if (left_->is_end()) { right_->nextTuple(); left_->beginTuple(); }
find_record_step(j) ==
    find_record_advance(j, SeqScanExecutor_nextTuple(j.left_, LeftFile(j)))

\* ---- NestedLoopJoinExecutor::find_record (executor_nestedloop_join.h) ----
\* The loop runs while isend is false and nothing in it sets isend: it is
\* left by the return on a matching pair, or by an exception.
RECURSIVE find_record(_)
find_record_moved(stepped) ==
    IF stepped.err # "ok" THEN stepped ELSE find_record(stepped)

find_record_test(j, e) ==
    IF e.err # "ok" THEN Raise(j, e.err)
    ELSE IF e.val THEN j
    ELSE find_record_moved(find_record_step(j))

find_record_pair(j, left_rec, right_rec) ==
    IF left_rec.err # "ok" THEN Raise(j, left_rec.err)
    ELSE IF right_rec.err # "ok" THEN Raise(j, right_rec.err)
    ELSE find_record_test(j, AbstractExecutor_eval_conds(j.cols_, j.fed_conds_,
                                                         left_rec.rec \o right_rec.rec))

find_record(j) ==
    IF j.isend THEN j
    ELSE find_record_pair(j, SeqScanExecutor_Next(j.left_, LeftFile(j)),
                          SeqScanExecutor_Next(j.right_, RightFile(j)))

\* ---- NestedLoopJoinExecutor::beginTuple (executor_nestedloop_join.h) ----
find_record_begun(j, l1, r1) ==
    IF l1.err # "ok" THEN Raise([j EXCEPT !.left_ = l1], l1.err)
    ELSE IF r1.err # "ok" THEN Raise([j EXCEPT !.left_ = l1, !.right_ = r1], r1.err)
    ELSE IF SeqScanExecutor_is_end(l1) \/ SeqScanExecutor_is_end(r1)
    THEN [j EXCEPT !.left_ = l1, !.right_ = r1, !.isend = TRUE, !.err = "ok"]
    ELSE find_record([j EXCEPT !.left_ = l1, !.right_ = r1, !.err = "ok"])

find_record_beginTuple(j) ==
    find_record_begun(j, SeqScanExecutor_beginTuple(j.left_, LeftFile(j)),
                      SeqScanExecutor_beginTuple(j.right_, RightFile(j)))

\* ---- NestedLoopJoinExecutor::nextTuple (executor_nestedloop_join.h) ----
find_record_nextTuple(j) ==
    IF j.isend THEN j ELSE find_record_moved(find_record_step(j))

\* the record a pair of child records joins to
Joined(j, left_rec, right_rec) ==
    IF left_rec.err # "ok" THEN [x |-> Raise(j, left_rec.err), rec |-> <<>>]
    ELSE IF right_rec.err # "ok" THEN [x |-> Raise(j, right_rec.err), rec |-> <<>>]
    ELSE [x |-> j, rec |-> left_rec.rec \o right_rec.rec]

\* ---- NestedLoopJoinExecutor::Next (executor_nestedloop_join.h) ----
\* get_record never returns null, so the nextTuple() of Next is never called.
find_record_Next(j) ==
    Joined(j, SeqScanExecutor_Next(j.left_, LeftFile(j)),
           SeqScanExecutor_Next(j.right_, RightFile(j)))

\* ---- NestedLoopJoinExecutor::beginTuple (part_002) ----
part_002_begun(j, l1, r1) ==
    IF l1.err # "ok" THEN Raise([j EXCEPT !.left_ = l1], l1.err)
    ELSE IF SeqScanExecutor_is_end(l1)
    THEN [j EXCEPT !.left_ = l1, !.isend = TRUE, !.err = "ok"]
    ELSE IF r1.err # "ok" THEN Raise([j EXCEPT !.left_ = l1, !.right_ = r1], r1.err)
    ELSE [j EXCEPT !.left_ = l1, !.right_ = r1, !.isend = FALSE, !.err = "ok"]

part_002_beginTuple(j) ==
    part_002_begun(j, SeqScanExecutor_beginTuple(j.left_, LeftFile(j)),
                   SeqScanExecutor_beginTuple(j.right_, RightFile(j)))

\* ---- NestedLoopJoinExecutor::nextTuple (part_002) ----
\* the right child has come to its end (r1); l1 is the left child after
\* left_->nextTuple(), r2 the right child after right_->beginTuple()
part_002_restart(j, l1, r2) ==
    IF l1.err # "ok" THEN Raise([j EXCEPT !.left_ = l1], l1.err)
    ELSE IF SeqScanExecutor_is_end(l1) THEN [j EXCEPT !.left_ = l1, !.isend = TRUE]
    ELSE IF r2.err # "ok" THEN Raise([j EXCEPT !.right_ = r2, !.left_ = l1], r2.err)
    ELSE [j EXCEPT !.right_ = r2, !.left_ = l1]

part_002_advance(j, r1) ==
    IF r1.err # "ok" THEN Raise([j EXCEPT !.right_ = r1], r1.err)
    ELSE IF ~SeqScanExecutor_is_end(r1) THEN [j EXCEPT !.right_ = r1]
    ELSE part_002_restart([j EXCEPT !.right_ = r1],
                          SeqScanExecutor_nextTuple(j.left_, LeftFile(j)),
                          SeqScanExecutor_beginTuple(r1, RightFile(j)))

part_002_nextTuple(j) ==
    IF j.isend THEN j
    ELSE part_002_advance(j, SeqScanExecutor_nextTuple(j.right_, RightFile(j)))

\* ---- NestedLoopJoinExecutor::Next (part_002) ----
\* Next itself walks on to the next pair that satisfies the conditions;
\* rec = <<>> stands for the nullptr it returns at the end.
RECURSIVE part_002_Next(_)
part_002_moved(stepped) ==
    IF stepped.err # "ok" THEN [x |-> stepped, rec |-> <<>>] ELSE part_002_Next(stepped)

part_002_test(j, e, joined) ==
    IF e.err # "ok" THEN [x |-> Raise(j, e.err), rec |-> <<>>]
    ELSE IF e.val THEN joined
    ELSE part_002_moved(part_002_nextTuple(j))

part_002_pair(j, left_rec, right_rec) ==
    IF left_rec.err # "ok" \/ right_rec.err # "ok" THEN Joined(j, left_rec, right_rec)
    ELSE part_002_test(j,
                       eval_join_conds(j.left_.cols_, j.right_.cols_, j.left_.len_,
                                       j.fed_conds_, left_rec.rec, right_rec.rec),
                       Joined(j, left_rec, right_rec))

part_002_Next(j) ==
    IF j.isend THEN [x |-> j, rec |-> <<>>]
    ELSE part_002_pair(j, SeqScanExecutor_Next(j.left_, LeftFile(j)),
                       SeqScanExecutor_Next(j.right_, RightFile(j)))

\* ---- the calls of the copy at hand ----
NestedLoopJoinExecutor_beginTuple(j) ==
    IF j.copy = "find_record" THEN find_record_beginTuple(j) ELSE part_002_beginTuple(j)

NestedLoopJoinExecutor_nextTuple(j) ==
    IF j.copy = "find_record" THEN find_record_nextTuple(j) ELSE part_002_nextTuple(j)

NestedLoopJoinExecutor_Next(j) ==
    IF j.copy = "find_record" THEN find_record_Next(j) ELSE part_002_Next(j)

\* ---- a join of two scans and its consumer ----
\* Tables L(x INT) and R(y INT) of one slot a page; the right scan may carry
\* a condition of its own; the join carries at most one condition.
JoinRecs == {<<1>>, <<2>>}
LeftCols == <<ColMeta("L", "x", "TYPE_INT", 1, 0)>>
RightCols == <<ColMeta("R", "y", "TYPE_INT", 1, 0)>>

RightConds == {<<>>, <<CondVal(TabCol("R", "y"), "OP_GT", Value("TYPE_INT", <<1>>))>>}

JoinConds ==
    {<<>>,
     <<CondCol(TabCol("L", "x"), "OP_EQ", TabCol("R", "y"))>>,
     <<CondCol(TabCol("L", "x"), "OP_LT", TabCol("R", "y"))>>,
     <<CondVal(TabCol("L", "x"), "OP_EQ", Value("TYPE_INT", <<1>>))>>}

\* values the unset rid_ of a scan may hold: the first record page, or the
\* page past the last one
UnsetRids(fh) == {Rid(RM_FIRST_RECORD_PAGE, 0), Rid(fh.hdr.num_pages, 0)}

Joining(j, pc) == [kind |-> "NestedLoopJoinExecutor", x |-> j, pc |-> pc]

JoinInit ==
    /\ StorageIdle
    /\ build \in [abstract : {"executor_abstract.h", "part_001"}, overflow : {"wraps"},
                  stray : {0, 1}]
    /\ index = {}
    /\ yielded = <<>>
    /\ earlier = <<>>
    /\ ex_last = ExCall("none", "ok", <<>>)
    /\ \E pl \in 0..MaxPages, pr \in 0..MaxPages :
          \E fl \in TableFiles(1, pl, 1, JoinRecs), fr \in TableFiles(1, pr, 1, JoinRecs) :
              \E copy \in {"find_record", "part_002"}, conds \in JoinConds,
                 right_conds \in RightConds,
                 ul \in UnsetRids(fl), ur \in UnsetRids(fr) :
                  /\ tables = [L |-> fl, R |-> fr]
                  /\ exec = Joining(NestedLoopJoinExecutor(
                                        copy,
                                        SeqScanExecutor("L", LeftCols, <<>>, ul),
                                        SeqScanExecutor("R", RightCols, right_conds, ur),
                                        conds),
                                    "constructed")

\* what a call that moves the join leaves behind
join_moved(op, j) ==
    /\ exec' = Joining(j, AfterCall(j))
    /\ ex_last' = ExCall(op, j.err, <<>>)
    /\ UNCHANGED <<ex_rest, yielded>>

join_beginTuple ==
    /\ exec.kind = "NestedLoopJoinExecutor"
    /\ exec.pc = "constructed"
    /\ join_moved("beginTuple", NestedLoopJoinExecutor_beginTuple(exec.x))

\* Next of the part_002 copy moves the cursors; the pair it returns is the one
\* the children are on afterwards.  A null return yields nothing.
join_returned(got) ==
    /\ exec' = Joining(got.x, IF got.x.err # "ok" THEN "raised" ELSE "read")
    /\ ex_last' = ExCall("Next", got.x.err, got.rec)
    /\ yielded' = IF got.x.err # "ok" \/ got.rec = <<>> THEN yielded
                  ELSE Append(yielded, [left |-> got.x.left_.rid_,
                                        right |-> got.x.right_.rid_,
                                        rec |-> got.rec])
    /\ UNCHANGED ex_rest

join_Next ==
    /\ exec.kind = "NestedLoopJoinExecutor"
    /\ exec.pc = "positioned"
    /\ ~exec.x.isend
    /\ join_returned(NestedLoopJoinExecutor_Next(exec.x))

join_nextTuple ==
    /\ exec.kind = "NestedLoopJoinExecutor"
    /\ exec.pc = "read"
    /\ join_moved("nextTuple", NestedLoopJoinExecutor_nextTuple(exec.x))

JoinNext ==
    \/ join_beginTuple
    \/ join_Next
    \/ join_nextTuple

JoinSpec == JoinInit /\ [][JoinNext]_vars

\* the record a Rid holds in a table
RecordAt(tab_name, rid) == tables[tab_name].pages[rid.page_no].slots[rid.slot_no]

\* the join's condition on a left and a right record (x and y INT)
PairSatisfies(cond, lrec, rrec) ==
    IF cond.is_rhs_val THEN OpHolds(cond.op, Order(lrec[1], cond.rhs_val.raw[1]))
    ELSE OpHolds(cond.op, Order(lrec[1], rrec[1]))

\* the pairs the join is to yield: a live left record, a live right record
\* that passes the right scan's conditions, the join's conditions holding
JoinExpected ==
    {[left |-> l, right |-> r, rec |-> RecordAt("L", l) \o RecordAt("R", r)] :
        <<l, r>> \in
            {p \in LiveRids(tables["L"]) \X LiveRids(tables["R"]) :
                /\ SatisfiesAll(RecordAt("R", p[2]), exec.x.right_.fed_conds_)
                /\ \A i \in 1..Len(exec.x.fed_conds_) :
                      PairSatisfies(exec.x.fed_conds_[i], RecordAt("L", p[1]),
                                    RecordAt("R", p[2]))}}

\* C22: a nested-loop join driven until is_end yields exactly the pairs of a
\* left and a right record that satisfy all join conditions, each pair once;
\* it yields nothing if either child is empty.
C22_JoinYieldsMatchingPairs ==
    exec.kind = "NestedLoopJoinExecutor" =>
        /\ exec.pc # "raised"
        /\ \A i \in 1..Len(yielded) : yielded[i] \in JoinExpected
        /\ \A i, k \in 1..Len(yielded) : i # k => yielded[i] # yielded[k]
        /\ (exec.pc # "constructed" /\ exec.x.isend) =>
               {yielded[i] : i \in 1..Len(yielded)} = JoinExpected

\* C30: the join is outer-major with the left child as the outer: the pairs
\* come in ascending order of the left record and, for one left record, in
\* ascending order of the right record.
C30_JoinLeftIsOuter ==
    exec.kind = "NestedLoopJoinExecutor" =>
        \A i, k \in 1..Len(yielded) :
            i < k => \/ RidBefore(yielded[i].left, yielded[k].left)
                     \/ /\ yielded[i].left = yielded[k].left
                        /\ RidBefore(yielded[i].right, yielded[k].right)

\* ======================= sort =======================
\* The repository holds two copies of SortExecutor: execution_sort.h
\* materialises the child's records and hands them to std::sort; part_000
\* re-reads the child on every step and selects the next record.  prev_ is
\* the sequence of records the child yields each time it is begun.
MaxSortLen == 3     \* records the child of a sort yields

SortCols ==
    <<ColMeta("t", "k", "TYPE_INT", 1, 0), ColMeta("t", "tag", "TYPE_INT", 1, 1)>>

\* ---- SortExecutor::SortExecutor ----
SortExecutor(copy, prev, sel_col, is_desc) ==
    [copy |-> copy, prev_ |-> prev, cols_ |-> SortCols[find_col(SortCols, sel_col)],
     is_desc_ |-> is_desc, tuple_num |-> 0, used_tuple |-> <<>>,
     current_tuple |-> <<>>, sorted_records_ |-> <<>>, current_index_ |-> 0,
     err |-> "ok"]

Arrangements(n) == {p \in [1..n -> 1..n] : \A i, k \in 1..n : p[i] = p[k] => i = k}

\* the orders std::sort may leave a list in: every arrangement in which no
\* record stands behind one that the comparator puts after it; the order of
\* records the comparator does not tell apart is not fixed
std_sort(recs, col, is_desc) ==
    {out \in {[i \in 1..Len(recs) |-> recs[p[i]]] : p \in Arrangements(Len(recs))} :
        \A i, k \in 1..Len(recs) :
            i < k => ~SortExecutor_less(col.type, is_desc, ColData(out[k], col),
                                        ColData(out[i], col))}

\* ---- SortExecutor::beginTuple (execution_sort.h) ----
std_sort_beginTuple(x, sorted) ==
    [x EXCEPT !.sorted_records_ = sorted, !.tuple_num = Len(sorted),
              !.current_index_ = 0]

\* ---- SortExecutor::nextTuple (execution_sort.h) ----
std_sort_nextTuple(x) ==
    IF x.current_index_ < Len(x.sorted_records_)
    THEN [x EXCEPT !.current_index_ = @ + 1]
    ELSE x

\* ---- SortExecutor::is_end (execution_sort.h) ----
std_sort_is_end(x) == x.current_index_ >= Len(x.sorted_records_)

\* ---- SortExecutor::Next (execution_sort.h); <<>> stands for nullptr ----
std_sort_Next(x) ==
    IF std_sort_is_end(x) THEN <<>> ELSE x.sorted_records_[x.current_index_ + 1]

\* ---- SortExecutor::cmp (part_000) with its null check ----
selection_cmp(col, is_desc, a, b) ==
    IF b = <<>> THEN TRUE
    ELSE SortExecutor_cmp(col.type, is_desc, ColData(a, col), ColData(b, col))

\* the loop of beginTuple and nextTuple (part_000): the child's records from
\* number cnt on, passing over the numbers in skip
RECURSIVE selection_loop(_, _, _, _, _)
selection_loop(x, skip, cnt, current_tuple, now) ==
    IF cnt >= Len(x.prev_)
    THEN [x EXCEPT !.current_tuple = current_tuple, !.tuple_num = @ + 1,
                   !.used_tuple = Append(@, now)]
    ELSE IF cnt \notin skip
            /\ selection_cmp(x.cols_, x.is_desc_, x.prev_[cnt + 1], current_tuple)
    THEN selection_loop(x, skip, cnt + 1, x.prev_[cnt + 1], cnt)
    ELSE selection_loop(x, skip, cnt + 1, current_tuple, now)

\* ---- SortExecutor::beginTuple (part_000) ----
selection_beginTuple(x) == selection_loop(x, {}, 0, <<>>, -1)

\* ---- SortExecutor::nextTuple (part_000) ----
selection_nextTuple(x) ==
    selection_loop(x, {x.used_tuple[i] : i \in 1..Len(x.used_tuple)}, 0, <<>>, -1)

\* ---- SortExecutor::Next (part_000): std::move(current_tuple) ----
selection_Next(x) == x.current_tuple

\* ---- the calls of the copy at hand ----
\* The part_000 copy does not override is_end: AbstractExecutor::is_end
\* returns true.
SortExecutor_is_end(x) == IF x.copy = "execution_sort.h" THEN std_sort_is_end(x) ELSE TRUE

SortExecutor_nextTuple(x) ==
    IF x.copy = "execution_sort.h" THEN std_sort_nextTuple(x) ELSE selection_nextTuple(x)

SortExecutor_Next(x) ==
    IF x.copy = "execution_sort.h" THEN [x |-> x, rec |-> std_sort_Next(x)]
    ELSE [x |-> [x EXCEPT !.current_tuple = <<>>], rec |-> selection_Next(x)]

\* ---- a sort and its consumer ----
\* The child yields records <<k, tag>>, tag numbering them in the order the
\* child yields them.
SortKeys == {INT_MIN, 1, 2}

ChildRecords == UNION {{[i \in 1..n |-> <<keys[i], i>>] : keys \in [1..n -> SortKeys]} :
                          n \in 0..MaxSortLen}

Sorting(x, pc) == [kind |-> "SortExecutor", x |-> x, pc |-> pc]

SortInit ==
    /\ StorageIdle
    /\ build \in [abstract : {"executor_abstract.h"}, overflow : {"wraps", "exact"},
                  stray : {0}]
    /\ tables = <<>>
    /\ index = {}
    /\ yielded = <<>>
    /\ earlier = <<>>
    /\ ex_last = ExCall("none", "ok", <<>>)
    /\ \E copy \in {"execution_sort.h", "part_000"}, prev \in ChildRecords,
          is_desc \in BOOLEAN :
          exec = Sorting(SortExecutor(copy, prev, TabCol("t", "k"), is_desc),
                         "constructed")

sort_beginTuple ==
    /\ exec.kind = "SortExecutor"
    /\ exec.pc = "constructed"
    /\ IF exec.x.copy = "execution_sort.h"
       THEN \E sorted \in std_sort(exec.x.prev_, exec.x.cols_, exec.x.is_desc_) :
               exec' = Sorting(std_sort_beginTuple(exec.x, sorted), "positioned")
       ELSE exec' = Sorting(selection_beginTuple(exec.x), "positioned")
    /\ ex_last' = ExCall("beginTuple", "ok", <<>>)
    /\ UNCHANGED <<ex_rest, yielded>>

sort_returned(got) ==
    /\ exec' = Sorting(got.x, "read")
    /\ ex_last' = ExCall("Next", "ok", got.rec)
    /\ yielded' = IF got.rec = <<>> THEN yielded ELSE Append(yielded, got.rec)
    /\ UNCHANGED ex_rest

sort_Next ==
    /\ exec.kind = "SortExecutor"
    /\ exec.pc = "positioned"
    /\ ~SortExecutor_is_end(exec.x)
    /\ sort_returned(SortExecutor_Next(exec.x))

sort_nextTuple ==
    /\ exec.kind = "SortExecutor"
    /\ exec.pc = "read"
    /\ exec' = Sorting(SortExecutor_nextTuple(exec.x), "positioned")
    /\ ex_last' = ExCall("nextTuple", "ok", <<>>)
    /\ UNCHANGED <<ex_rest, yielded>>

SortNext ==
    \/ sort_beginTuple
    \/ sort_Next
    \/ sort_nextTuple

SortSpec == SortInit /\ [][SortNext]_vars

\* C25: after beginTuple the sort yields a permutation of the records its
\* child yields: is_end is false until all of them have been yielded, none
\* comes twice, and the keys come in non-decreasing order for an ascending
\* and in non-increasing order for a descending sort.
C25_SortYieldsSortedPermutation ==
    exec.kind = "SortExecutor" =>
        /\ \A i \in 1..Len(yielded) : \E n \in 1..Len(exec.x.prev_) : yielded[i] = exec.x.prev_[n]
        /\ \A i, k \in 1..Len(yielded) : i # k => yielded[i] # yielded[k]
        /\ \A i, k \in 1..Len(yielded) :
               i < k => IF exec.x.is_desc_ THEN yielded[i][1] >= yielded[k][1]
                        ELSE yielded[i][1] <= yielded[k][1]
        /\ exec.pc = "positioned" =>
               (SortExecutor_is_end(exec.x) <=> Len(yielded) = Len(exec.x.prev_))

\* C26: two records with equal sort keys are yielded in the order in which
\* the child yielded them, ascending or descending.
C26_SortIsStable ==
    exec.kind = "SortExecutor" =>
        \A i, k \in 1..Len(yielded) :
            (i < k /\ yielded[i][1] = yielded[k][1]) => yielded[i][2] < yielded[k][2]

\* ======================= projection =======================
\* prev_, the child of a projection, is an operator over a list of records:
\* its columns, the records it yields and its cursor.
MaxCols == 3        \* columns of the child of a projection
MaxSel == 2         \* columns a projection selects
MaxChildRecs == 2   \* records the child of a projection yields

Child(cols, recs) == [cols_ |-> cols, recs |-> recs, at |-> 0, begun |-> FALSE]
Child_beginTuple(c) == [c EXCEPT !.at = 0, !.begun = TRUE]
Child_nextTuple(c) == [c EXCEPT !.at = @ + 1]
Child_is_end(c) == ~c.begun \/ c.at >= Len(c.recs)
\* <<>> stands for nullptr
Child_Next(c) == IF Child_is_end(c) THEN <<>> ELSE c.recs[c.at + 1]

\* ---- ProjectionExecutor::ProjectionExecutor, the loop over sel_cols ----
\* the columns that are left of a projection when offsets are not repacked
RECURSIVE ProjectionExecutor_cols_unpacked(_, _, _)
ProjectionExecutor_cols_unpacked(prev_cols, sel_cols, curr_offset) ==
    IF sel_cols = <<>> THEN <<>>
    ELSE <<prev_cols[find_col(prev_cols, Head(sel_cols))]>>
         \o ProjectionExecutor_cols_unpacked(prev_cols, Tail(sel_cols), curr_offset)

RECURSIVE ProjectionExecutor_cols(_, _, _)
ProjectionExecutor_cols(prev_cols, sel_cols, curr_offset) ==
    IF sel_cols = <<>> THEN <<>>
    ELSE <<[prev_cols[find_col(prev_cols, Head(sel_cols))] EXCEPT !.offset = curr_offset]>>
         \o ProjectionExecutor_cols(
                prev_cols, Tail(sel_cols),
                curr_offset + prev_cols[find_col(prev_cols, Head(sel_cols))].len)

RECURSIVE SumLen(_)
SumLen(cols) == IF cols = <<>> THEN 0 ELSE Head(cols).len + SumLen(Tail(cols))

\* get_col raises ColumnNotFoundError for a column the child does not have
ProjectionExecutor(prev, sel_cols) ==
    IF \E i \in 1..Len(sel_cols) : find_col(prev.cols_, sel_cols[i]) = 0
    THEN [prev_ |-> prev, sel_idxs_ |-> <<>>, cols_ |-> <<>>, len_ |-> 0,
          err |-> "ColumnNotFoundError"]
    ELSE [prev_ |-> prev,
          sel_idxs_ |-> [i \in 1..Len(sel_cols) |-> find_col(prev.cols_, sel_cols[i])],
          cols_ |-> ProjectionExecutor_cols(prev.cols_, sel_cols, 0),
          len_ |-> SumLen(ProjectionExecutor_cols(prev.cols_, sel_cols, 0)),
          err |-> "ok"]

ProjectionExecutor_beginTuple(x) == [x EXCEPT !.prev_ = Child_beginTuple(@)]
ProjectionExecutor_nextTuple(x) == [x EXCEPT !.prev_ = Child_nextTuple(@)]
ProjectionExecutor_is_end(x) == Child_is_end(x.prev_)

\* the memcpy loop of Next: cell p of proj_rec comes from the last selected
\* column whose place covers it; a cell no column covers stays as allocated
Gather(x, prev_rec) ==
    [p \in 1..x.len_ |->
        LET covering == {i \in 1..Len(x.cols_) :
                            /\ x.cols_[i].offset < p
                            /\ p <= x.cols_[i].offset + x.cols_[i].len}
        IN  IF covering = {} THEN 0
            ELSE LET i == CHOOSE m \in covering : \A o \in covering : o <= m
                 IN  prev_rec[x.prev_.cols_[x.sel_idxs_[i]].offset + (p - x.cols_[i].offset)]]

\* ---- ProjectionExecutor::Next ----
ProjectionExecutor_Next(x, prev_rec) ==
    IF prev_rec = <<>> THEN <<>> ELSE Gather(x, prev_rec)

\* ---- a projection and its consumer ----
ColName(i) == <<"c1", "c2", "c3", "c4", "c5", "c6">>[i]

\* child schemas: up to MaxCols columns of one or two cells each, packed
RECURSIVE SchemaCols(_, _)
SchemaCols(lens, offset) ==
    IF lens = <<>> THEN <<>>
    ELSE LET n == Len(lens)
         IN  SchemaCols(SubSeq(lens, 1, n - 1), offset)
             \o <<ColMeta("t", ColName(n), IF lens[n] = 1 THEN "TYPE_INT" ELSE "TYPE_STRING",
                          lens[n], SumLen(SchemaCols(SubSeq(lens, 1, n - 1), offset)))>>

ProjSchemas == UNION {{SchemaCols(lens, 0) : lens \in [1..n -> {1, 2}]} : n \in 1..MaxCols}

\* the selections over a schema of n columns: its columns in any order, also
\* repeated, and one column the child does not have
ProjSelections(n) ==
    UNION {[1..k -> {TabCol("t", ColName(i)) : i \in 1..(n + 1)}] : k \in 1..MaxSel}

\* record number b of a child of the given tuple length: every cell differs
ChildRec(b, len) == [i \in 1..len |-> 10 * b + i]

ChildRecLists(len) ==
    UNION {{[i \in 1..n |-> ChildRec(bs[i], len)] : bs \in [1..n -> {1, 2}]} :
              n \in 0..MaxChildRecs}

\* sel_cols is the list the constructor was given
Projecting(x, pc) ==
    [kind |-> "ProjectionExecutor", sel_cols |-> exec.sel_cols, x |-> x, pc |-> pc]

ProjInit ==
    /\ StorageIdle
    /\ build = [abstract |-> "executor_abstract.h", overflow |-> "wraps", stray |-> 0]
    /\ tables = <<>>
    /\ index = {}
    /\ yielded = <<>>
    /\ earlier = <<>>
    /\ ex_last = ExCall("none", "ok", <<>>)
    /\ \E cols \in ProjSchemas :
          \E sel_cols \in ProjSelections(Len(cols)), recs \in ChildRecLists(SumLen(cols)) :
              exec = [kind |-> "ProjectionExecutor", sel_cols |-> sel_cols,
                      x |-> [prev_ |-> Child(cols, recs)], pc |-> "unmade"]

\* the constructor
proj_made(x) ==
    /\ exec' = Projecting(x, IF x.err # "ok" THEN "raised" ELSE "constructed")
    /\ ex_last' = ExCall("ProjectionExecutor", x.err, <<>>)
    /\ UNCHANGED <<ex_rest, yielded>>

proj_construct ==
    /\ exec.kind = "ProjectionExecutor"
    /\ exec.pc = "unmade"
    /\ proj_made(ProjectionExecutor(exec.x.prev_, exec.sel_cols))

proj_beginTuple ==
    /\ exec.kind = "ProjectionExecutor"
    /\ exec.pc = "constructed"
    /\ exec' = Projecting(ProjectionExecutor_beginTuple(exec.x), "positioned")
    /\ ex_last' = ExCall("beginTuple", "ok", <<>>)
    /\ UNCHANGED <<ex_rest, yielded>>

proj_returned(prev_rec, rec) ==
    /\ exec' = [exec EXCEPT !.pc = "read"]
    /\ ex_last' = ExCall("Next", "ok", rec)
    /\ yielded' = IF rec = <<>> THEN yielded
                  ELSE Append(yielded, [child |-> prev_rec, rec |-> rec])
    /\ UNCHANGED ex_rest

proj_Next ==
    /\ exec.kind = "ProjectionExecutor"
    /\ exec.pc = "positioned"
    /\ ~ProjectionExecutor_is_end(exec.x)
    /\ proj_returned(Child_Next(exec.x.prev_),
                     ProjectionExecutor_Next(exec.x, Child_Next(exec.x.prev_)))

proj_nextTuple ==
    /\ exec.kind = "ProjectionExecutor"
    /\ exec.pc = "read"
    /\ exec' = Projecting(ProjectionExecutor_nextTuple(exec.x), "positioned")
    /\ ex_last' = ExCall("nextTuple", "ok", <<>>)
    /\ UNCHANGED <<ex_rest, yielded>>

ProjNext ==
    \/ proj_construct
    \/ proj_beginTuple
    \/ proj_Next
    \/ proj_nextTuple

ProjSpec == ProjInit /\ [][ProjNext]_vars

\* the child's column a selected column names
Selected(sel_col) == exec.x.prev_.cols_[find_col(exec.x.prev_.cols_, sel_col)]

\* C27: the output columns of a projection are the selected columns in the
\* requested order with offsets 0, len1, len1 + len2, ...; its tuple length
\* is the sum of their lengths; every output record holds, for each selected
\* column, the cells of that column in the child's current record; and the
\* projection yields exactly one record for every record of the child.
C27_ProjectionGathers ==
    (exec.kind = "ProjectionExecutor" /\ exec.pc \notin {"unmade", "raised"}) =>
        LET x == exec.x
            n == Len(exec.sel_cols)
        IN  /\ Len(x.cols_) = n
            /\ \A i \in 1..n :
                  /\ x.cols_[i].name = exec.sel_cols[i].col_name
                  /\ x.cols_[i].len = Selected(exec.sel_cols[i]).len
                  /\ x.cols_[i].type = Selected(exec.sel_cols[i]).type
                  /\ x.cols_[i].offset = SumLen(SubSeq(x.cols_, 1, i - 1))
            /\ x.len_ = SumLen(x.cols_)
            /\ \A k \in 1..Len(yielded) :
                  /\ yielded[k].child = x.prev_.recs[k]
                  /\ Len(yielded[k].rec) = x.len_
                  /\ \A i \in 1..n :
                        ColData(yielded[k].rec, x.cols_[i])
                            = ColData(yielded[k].child, Selected(exec.sel_cols[i]))
            /\ Len(yielded) <= Len(x.prev_.recs)
            /\ exec.pc = "read" => Len(yielded) = x.prev_.at + 1
            /\ (exec.pc = "positioned" /\ ProjectionExecutor_is_end(x)) =>
                   Len(yielded) = Len(x.prev_.recs)

\* a projection that selected a two-cell column and then an earlier column of
\* the child has yielded a record for each of the child's two records
C27_Witness ==
    /\ exec.kind = "ProjectionExecutor"
    /\ exec.pc = "positioned"
    /\ ProjectionExecutor_is_end(exec.x)
    /\ Len(yielded) = 2
    /\ Len(exec.x.cols_) = 2
    /\ exec.x.cols_[2].offset = 2
    /\ exec.x.sel_idxs_[2] < exec.x.sel_idxs_[1]

\* ======================= update =======================
\* The repository holds two copies of UpdateExecutor: executor_update.h checks
\* the types of all set clauses before it touches a record; part_003 converts
\* between INT and FLOAT, one record at a time.  The index handles and
\* Value::init_raw are not part of the sources at hand: an index is the set of
\* its entries, a key and the Rid it maps to.
MaxRids == 2        \* Rids handed to an update

UpdCols ==
    <<ColMeta("t", "a", "TYPE_INT", 1, 0), ColMeta("t", "f", "TYPE_FLOAT", 1, 1),
      ColMeta("t", "s", "TYPE_STRING", 1, 2)>>

\* tab_.get_col(name)
UpdCol(col_name) == UpdCols[find_col(UpdCols, TabCol("t", col_name))]

SetClause(col_name, rhs) == [lhs |-> TabCol("t", col_name), rhs |-> rhs]

IndexMeta(col_names) == [cols |-> [i \in 1..Len(col_names) |-> UpdCol(col_names[i])]]

\* the key of a record in an index: its index columns, one after the other
RECURSIVE IndexKey(_, _)
IndexKey(cols, rec) ==
    IF cols = <<>> THEN <<>> ELSE ColData(rec, Head(cols)) \o IndexKey(Tail(cols), rec)

\* ---- the index handle: delete_entry(key, txn), insert_entry(key, rid, txn) ----
delete_entry(entries, key) == {e \in entries : e.key # key}
insert_entry(entries, key, rid) == entries \cup {[key |-> key, rid |-> rid]}

\* ---- UpdateExecutor::delete_index ----
UpdateExecutor_delete_index(indexes, ihs, rec) ==
    [i \in 1..Len(indexes) |-> delete_entry(ihs[i], IndexKey(indexes[i].cols, rec))]

\* ---- UpdateExecutor::insert_index ----
insert_index_skipped(indexes, ihs, rec, rid) == ihs

UpdateExecutor_insert_index(indexes, ihs, rec, rid) ==
    [i \in 1..Len(indexes) |-> insert_entry(ihs[i], IndexKey(indexes[i].cols, rec), rid)]

\* ---- RmFileHandle::update_record on the file of a table ----
fh_update_record(fh, rid, buf) ==
    IF rid.page_no >= fh.hdr.num_pages
    THEN [err |-> "PageNotExistError", fh |-> fh]
    ELSE IF ~fh.pages[rid.page_no].bitmap[rid.slot_no]
    THEN [err |-> "RecordNotFoundError", fh |-> fh]
    ELSE [err |-> "ok", fh |-> [fh EXCEPT !.pages[rid.page_no].slots[rid.slot_no] = buf]]

\* memcpy(new_rec->data + col->offset, raw->data, col->len)
SetColumn(rec, col, raw) ==
    [i \in 1..Len(rec) |->
        IF col.offset < i /\ i <= col.offset + col.len THEN raw[i - col.offset] ELSE rec[i]]

\* ---- UpdateExecutor::UpdateExecutor ----
UpdateExecutor(copy, indexes, set_clauses, rids) ==
    [copy |-> copy, tab_ |-> [cols |-> UpdCols, indexes |-> indexes],
     set_clauses_ |-> set_clauses, rids_ |-> rids]

\* the state an update works on: the table's file, its index handles, and
\* the exception that ended the call
Work(fh, ihs, err) == [fh |-> fh, ihs |-> ihs, err |-> err]

\* ---- UpdateExecutor::Next (executor_update.h) ----
\* the loop that checks the type of every set clause
TypesMatch(set_clauses) ==
    \A i \in 1..Len(set_clauses) :
        UpdCol(set_clauses[i].lhs.col_name).type = set_clauses[i].rhs.type

\* the loop that applies the set clauses to a record
RECURSIVE checked_apply(_, _)
checked_apply(set_clauses, rec) ==
    IF set_clauses = <<>> THEN rec
    ELSE checked_apply(Tail(set_clauses),
                       SetColumn(rec, UpdCol(Head(set_clauses).lhs.col_name),
                                 Head(set_clauses).rhs.raw))

RECURSIVE checked_loop(_, _, _)
checked_written(x, rids, w, written) ==
    IF written.err # "ok" THEN Work(w.fh, w.ihs, written.err)
    ELSE checked_loop(x, Tail(rids), Work(written.fh, w.ihs, "ok"))

checked_rid(x, rids, w, old_rec, new_rec) ==
    checked_written(
        x, rids,
        Work(w.fh,
             UpdateExecutor_insert_index(
                 x.tab_.indexes,
                 UpdateExecutor_delete_index(x.tab_.indexes, w.ihs, old_rec),
                 new_rec, Head(rids)),
             "ok"),
        fh_update_record(w.fh, Head(rids), new_rec))

checked_got(x, rids, w, got) ==
    IF got.err # "ok" THEN Work(w.fh, w.ihs, got.err)
    ELSE checked_rid(x, rids, w, got.rec, checked_apply(x.set_clauses_, got.rec))

checked_loop(x, rids, w) ==
    IF rids = <<>> THEN w
    ELSE checked_got(x, rids, w, fh_get_record(w.fh, Head(rids)))

checked_Next(x, w) ==
    IF ~TypesMatch(x.set_clauses_) THEN Work(w.fh, w.ihs, "IncompatibleTypeError")
    ELSE checked_loop(x, x.rids_, w)

\* ---- UpdateExecutor::Next (part_003) ----
\* the value a set clause writes into a column of the given type
Converted(type, rhs) ==
    IF type = rhs.type THEN [err |-> "ok", raw |-> rhs.raw]
    ELSE IF type = "TYPE_INT" /\ rhs.type = "TYPE_FLOAT"
    THEN [err |-> "ok", raw |-> <<static_cast_int(rhs.raw[1])>>]
    ELSE IF type = "TYPE_FLOAT" /\ rhs.type = "TYPE_INT"
    THEN [err |-> "ok", raw |-> <<static_cast_float(rhs.raw[1])>>]
    ELSE [err |-> "IncompatibleTypeError", raw |-> <<>>]

RECURSIVE converting_apply(_, _)
converting_set(set_clauses, rec, col, value) ==
    IF value.err # "ok" THEN [err |-> value.err, rec |-> rec]
    ELSE converting_apply(Tail(set_clauses), SetColumn(rec, col, value.raw))

converting_apply(set_clauses, rec) ==
    IF set_clauses = <<>> THEN [err |-> "ok", rec |-> rec]
    ELSE converting_set(set_clauses, rec, UpdCol(Head(set_clauses).lhs.col_name),
                        Converted(UpdCol(Head(set_clauses).lhs.col_name).type,
                                  Head(set_clauses).rhs))

RECURSIVE converting_loop(_, _, _)
converting_written(x, rids, w, written) ==
    IF written.err # "ok" THEN Work(w.fh, w.ihs, written.err)
    ELSE converting_loop(x, Tail(rids), Work(written.fh, w.ihs, "ok"))

\* w holds the indexes after delete_index(old_rec)
converting_rid(x, rids, w, new) ==
    IF new.err # "ok" THEN Work(w.fh, w.ihs, new.err)
    ELSE converting_written(
             x, rids,
             Work(w.fh,
                  UpdateExecutor_insert_index(x.tab_.indexes, w.ihs, new.rec, Head(rids)),
                  "ok"),
             fh_update_record(w.fh, Head(rids), new.rec))

converting_got(x, rids, w, got) ==
    IF got.err # "ok" THEN Work(w.fh, w.ihs, got.err)
    ELSE converting_rid(
             x, rids,
             Work(w.fh, UpdateExecutor_delete_index(x.tab_.indexes, w.ihs, got.rec), "ok"),
             converting_apply(x.set_clauses_, got.rec))

converting_loop(x, rids, w) ==
    IF rids = <<>> THEN w
    ELSE converting_got(x, rids, w, fh_get_record(w.fh, Head(rids)))

\* ---- the call of the copy at hand ----
UpdateExecutor_Next(x, w) ==
    IF x.copy = "executor_update.h" THEN checked_Next(x, w)
    ELSE converting_loop(x, x.rids_, w)

\* ---- an update and its caller ----
\* records (a, f, s) of table t; a FLOAT cell counts halves
UpdRecs == {<<5, 3, 0>>, <<7, 3, 0>>, <<5, 3, 1>>}

SetClauses ==
    {SetClause("a", Value("TYPE_INT", <<7>>)), SetClause("a", Value("TYPE_FLOAT", <<15>>)),
     SetClause("a", Value("TYPE_STRING", <<1>>)),
     SetClause("f", Value("TYPE_INT", <<2>>)), SetClause("f", Value("TYPE_FLOAT", <<5>>)),
     SetClause("s", Value("TYPE_STRING", <<1>>)), SetClause("s", Value("TYPE_INT", <<1>>))}

\* one set clause, or two on different columns
SetClauseLists ==
    {<<c>> : c \in SetClauses}
        \cup {<<p[1], p[2]>> : p \in {q \in SetClauses \X SetClauses : q[1].lhs # q[2].lhs}}

\* no index, an index on a, one on (a, s), or one on a and one on s
IndexLists ==
    {<<>>, <<IndexMeta(<<"a">>)>>, <<IndexMeta(<<"a", "s">>)>>,
     <<IndexMeta(<<"a">>), IndexMeta(<<"s">>)>>}

\* the lists of up to MaxRids different Rids of live records
RidLists(fh) ==
    UNION {{l \in [1..n -> LiveRids(fh)] : \A i, k \in 1..n : l[i] = l[k] => i = k} :
              n \in 1..MaxRids}

\* indexes that hold the key of every live record
IndexesOf(indexes, fh) ==
    [i \in 1..Len(indexes) |->
        {[key |-> IndexKey(indexes[i].cols, fh.pages[r.page_no].slots[r.slot_no]),
          rid |-> r] : r \in LiveRids(fh)}]

Updating(x, pc) == [kind |-> "UpdateExecutor", x |-> x, pc |-> pc]

UpdInit ==
    /\ StorageIdle
    /\ build = [abstract |-> "executor_abstract.h", overflow |-> "wraps", stray |-> 0]
    /\ yielded = <<>>
    /\ earlier = <<>>
    /\ ex_last = ExCall("none", "ok", <<>>)
    /\ \E p \in 1..MaxPages :
          \E fh \in TableFiles(1, p, 3, UpdRecs) :
              \E copy \in {"executor_update.h", "part_003"}, indexes \in IndexLists,
                 set_clauses \in SetClauseLists, rids \in RidLists(fh) :
                  /\ tables = [t |-> fh]
                  /\ index = IndexesOf(indexes, fh)
                  /\ exec = Updating(UpdateExecutor(copy, indexes, set_clauses, rids),
                                     "constructed")

\* yielded keeps the file and the indexes as they were before the call
upd_returned(w) ==
    /\ tables' = [t |-> w.fh]
    /\ index' = w.ihs
    /\ exec' = [exec EXCEPT !.pc = IF w.err # "ok" THEN "raised" ELSE "done"]
    /\ ex_last' = ExCall("Next", w.err, <<>>)
    /\ yielded' = <<[fh |-> tables["t"], ihs |-> index]>>
    /\ UNCHANGED <<rm_vars, dm_vars, th_vars, sm_vars, build, earlier>>

upd_Next ==
    /\ exec.kind = "UpdateExecutor"
    /\ exec.pc = "constructed"
    /\ upd_returned(UpdateExecutor_Next(exec.x, Work(tables["t"], index, "ok")))

\* the caller looks at the record of one of the Rids afterwards
upd_get_record ==
    /\ exec.kind = "UpdateExecutor"
    /\ exec.pc \in {"done", "raised"}
    /\ ex_last.op = "Next"
    /\ \E i \in 1..Len(exec.x.rids_) :
          ex_last' = ExCall("get_record", "ok",
                            fh_get_record(tables["t"], exec.x.rids_[i]).rec)
    /\ UNCHANGED <<ex_rest, exec, yielded>>

UpdNext ==
    \/ upd_Next
    \/ upd_get_record

UpdSpec == UpdInit /\ [][UpdNext]_vars

\* the record a Rid held before the update, and the one it holds now
OldRecord(rid) == fh_get_record(yielded[1].fh, rid).rec
NewRecord(rid) == fh_get_record(tables["t"], rid).rec

\* the value an assignment to a column of the given type stands for: the
\* assigned value itself, or its conversion between INT and FLOAT
AssignedRaw(type, rhs) ==
    IF type = "TYPE_INT" /\ rhs.type = "TYPE_FLOAT" THEN <<static_cast_int(rhs.raw[1])>>
    ELSE IF type = "TYPE_FLOAT" /\ rhs.type = "TYPE_INT" THEN <<static_cast_float(rhs.raw[1])>>
    ELSE rhs.raw

\* every assigned column holds the assigned value, every other column is as
\* it was
RecordUpdated(rid) ==
    \A c \in 1..Len(UpdCols) :
        LET assigning == {i \in 1..Len(exec.x.set_clauses_) :
                             exec.x.set_clauses_[i].lhs.col_name = UpdCols[c].name}
        IN  /\ \A i \in assigning :
                   ColData(NewRecord(rid), UpdCols[c])
                       = AssignedRaw(UpdCols[c].type, exec.x.set_clauses_[i].rhs)
            /\ assigning = {} =>
                   ColData(NewRecord(rid), UpdCols[c]) = ColData(OldRecord(rid), UpdCols[c])

UpdatedRids == {exec.x.rids_[i] : i \in 1..Len(exec.x.rids_)}

OldKey(i, rid) == IndexKey(exec.x.tab_.indexes[i].cols, OldRecord(rid))
NewKey(i, rid) == IndexKey(exec.x.tab_.indexes[i].cols, NewRecord(rid))

StringMismatch(set_clause) ==
    LET type == UpdCol(set_clause.lhs.col_name).type
    IN  /\ type # set_clause.rhs.type
        /\ "TYPE_STRING" \in {type, set_clause.rhs.type}

\* C29: an update that assigns an INT value to a FLOAT column or a FLOAT
\* value to an INT column converts the value and succeeds; one that assigns
\* a STRING value to a numeric column or a numeric value to a STRING column
\* raises IncompatibleType.
C29_UpdateConvertsNumbers ==
    (exec.kind = "UpdateExecutor" /\ exec.pc \in {"done", "raised"}) =>
        IF \E i \in 1..Len(exec.x.set_clauses_) : StringMismatch(exec.x.set_clauses_[i])
        THEN exec.pc = "raised"
        ELSE /\ exec.pc = "done"
             /\ \A rid \in UpdatedRids : RecordUpdated(rid)

\* ======================= the join comes to its end =======================
\* Every call of the consumer returns: the operators above are finite
\* computations.  A call of the consumer is due as long as it has not seen
\* is_end() = true and no exception has ended the query; this is what enables
\* JoinNext.
JoinCanStep ==
    \/ exec.pc \in {"constructed", "read"}
    \/ exec.pc = "positioned" /\ ~exec.x.isend

\* C31: beginTuple followed by nextTuple again and again brings the join to
\* is_end() = true after finitely many calls: the walk stops nowhere but at
\* is_end() = true, it hands out no more records than there are pairs of a
\* left and a right record, and is_end() is true whenever a call leaves the
\* left (outer) child at its end.
C31_JoinReachesEnd ==
    exec.kind = "NestedLoopJoinExecutor" =>
        /\ JoinCanStep \/ (exec.pc = "positioned" /\ exec.x.isend)
        /\ Len(yielded) <= Cardinality(LiveRids(tables["L"]))
                               * Cardinality(LiveRids(tables["R"]))
        /\ (exec.pc = "positioned" /\ SeqScanExecutor_is_end(exec.x.left_)) => exec.x.isend

\* ======================= beginTuple() called again =======================
\* The consumer of a scan, a join, a projection or a sort calls beginTuple()
\* once more, after any number of calls and also after it has seen the end;
\* no table is modified in between (nothing here writes tables).
MaxRestarts == 1    \* further beginTuple() calls a consumer makes

\* the consumer has seen the end of the run
RunEnded ==
    CASE exec.kind = "SeqScanExecutor" ->
             exec.pc = "positioned" /\ SeqScanExecutor_is_end(exec.x)
      [] exec.kind = "NestedLoopJoinExecutor" -> exec.pc = "positioned" /\ exec.x.isend
      [] exec.kind = "ProjectionExecutor" ->
             exec.pc = "positioned" /\ ProjectionExecutor_is_end(exec.x)
      [] exec.kind = "SortExecutor" ->
             IF exec.x.copy = "execution_sort.h"
             THEN exec.pc = "positioned" /\ SortExecutor_is_end(exec.x)
             ELSE exec.pc = "drained"
      [] OTHER -> FALSE

\* what a further beginTuple() leaves behind: the run so far goes to earlier
restarted(err) ==
    /\ Len(earlier) < MaxRestarts
    /\ earlier' = Append(earlier, [run |-> yielded, ended |-> RunEnded])
    /\ yielded' = <<>>
    /\ ex_last' = ExCall("beginTuple", err, <<>>)
    /\ UNCHANGED <<rm_vars, dm_vars, th_vars, sm_vars, build, tables, index>>

scan_begun_again(x) ==
    /\ exec' = Running(x, AfterCall(x))
    /\ restarted(x.err)

scan_beginTuple_again ==
    /\ exec.kind = "SeqScanExecutor"
    /\ exec.pc \in {"positioned", "read"}
    /\ scan_begun_again(SeqScanExecutor_beginTuple(exec.x, tables[exec.x.tab_name_]))

join_begun_again(j) ==
    /\ exec' = Joining(j, AfterCall(j))
    /\ restarted(j.err)

join_beginTuple_again ==
    /\ exec.kind = "NestedLoopJoinExecutor"
    /\ exec.pc \in {"positioned", "read"}
    /\ join_begun_again(NestedLoopJoinExecutor_beginTuple(exec.x))

proj_beginTuple_again ==
    /\ exec.kind = "ProjectionExecutor"
    /\ exec.pc \in {"positioned", "read"}
    /\ exec' = Projecting(ProjectionExecutor_beginTuple(exec.x), "positioned")
    /\ restarted("ok")

\* std::sort is a function of the list it is given: the child yields the
\* same records again, so they come out in the order of the first call.
sort_beginTuple_again ==
    /\ exec.kind = "SortExecutor"
    /\ exec.pc \in {"positioned", "read", "drained"}
    /\ IF exec.x.copy = "execution_sort.h"
       THEN \E sorted \in std_sort(exec.x.prev_, exec.x.cols_, exec.x.is_desc_) :
               /\ sorted = exec.x.sorted_records_
               /\ exec' = Sorting(std_sort_beginTuple(exec.x, sorted), "positioned")
       ELSE exec' = Sorting(selection_beginTuple(exec.x), "positioned")
    /\ restarted("ok")

\* is_end() of the part_000 copy of SortExecutor is true throughout, so its
\* consumer goes by what Next returns: it calls Next, and nextTuple after
\* every record, until Next returns nullptr.
sort_drawn(got) ==
    /\ exec' = Sorting(got.x, IF got.rec = <<>> THEN "drained" ELSE "read")
    /\ ex_last' = ExCall("Next", "ok", got.rec)
    /\ yielded' = IF got.rec = <<>> THEN yielded ELSE Append(yielded, got.rec)
    /\ UNCHANGED ex_rest

sort_Next_until_null ==
    /\ exec.kind = "SortExecutor"
    /\ exec.x.copy = "part_000"
    /\ exec.pc = "positioned"
    /\ sort_drawn(SortExecutor_Next(exec.x))

RestartInit ==
    \/ ScanInit /\ Len(exec.x.fed_conds_) <= 1
    \/ JoinInit /\ build.abstract = "executor_abstract.h" /\ build.stray = 0
    \/ ProjInit
    \/ SortInit /\ build.overflow = "exact"

RestartNext ==
    \/ ScanNext
    \/ JoinNext
    \/ ProjNext
    \/ SortNext
    \/ sort_Next_until_null
    \/ scan_beginTuple_again
    \/ join_beginTuple_again
    \/ proj_beginTuple_again
    \/ sort_beginTuple_again

RestartSpec == RestartInit /\ [][RestartNext]_vars

\* C32: beginTuple() called again on a sequential scan, a nested-loop join, a
\* projection or a sort, after any number of calls and also after the end was
\* seen, restarts the operator: it yields the records it yielded after the
\* first beginTuple(), in the same order.  Of two runs the shorter is the
\* beginning of the longer, and a run that was seen to its end is not shorter
\* than another.
C32_BeginRestarts ==
    \A n \in 1..Len(earlier) :
        /\ Len(yielded) <= Len(earlier[n].run) =>
               yielded = SubSeq(earlier[n].run, 1, Len(yielded))
        /\ Len(yielded) >= Len(earlier[n].run) =>
               earlier[n].run = SubSeq(yielded, 1, Len(earlier[n].run))
        /\ earlier[n].ended => Len(yielded) <= Len(earlier[n].run)
        /\ RunEnded => Len(yielded) >= Len(earlier[n].run)

\* ======================= the shape of the free list =======================
\* the pages met, in order, by following next_free_page_no from page_no for
\* at most k steps
RECURSIVE FreeWalk(_, _)
FreeWalk(page_no, k) ==
    IF page_no = RM_NO_PAGE \/ k = 0 THEN <<>>
    ELSE <<page_no>> \o FreeWalk(pages[page_no].next_free_page_no, k - 1)

\* the walk from first_free_page_no comes to RM_NO_PAGE and meets no page twice
FreeListEnds ==
    LET walk == FreeWalk(file_hdr.first_free_page_no, Len(pages) + 1)
    IN  /\ Len(walk) <= Len(pages)
        /\ \A i, k \in 1..Len(walk) : walk[i] = walk[k] => i = k

FreeListHeadNotFull ==
    file_hdr.first_free_page_no # RM_NO_PAGE =>
        pages[file_hdr.first_free_page_no].num_records < N

\* C36: after any sequence of insert_record (with or without Rid) and
\* delete_record calls the walk along next_free_page_no from
\* first_free_page_no reaches RM_NO_PAGE and visits no page twice, and
\* first_free_page_no is never a full page.
C36_FreeListIsAList ==
    /\ FreeListEnds
    /\ FreeListHeadNotFull

\* ======================= where the join stands =======================
\* the join is on a pair: the consumer is past beginTuple or nextTuple and
\* is_end() is false
JoinOnPair ==
    exec.kind = "NestedLoopJoinExecutor" /\ exec.pc = "positioned" /\ ~exec.x.isend

ChildrenOnRecords ==
    /\ ~SeqScanExecutor_is_end(exec.x.left_)
    /\ ~SeqScanExecutor_is_end(exec.x.right_)

PairAtCursors ==
    RecordAt("L", exec.x.left_.rid_) \o RecordAt("R", exec.x.right_.rid_)

\* neither child is at its end and the pair at the cursors satisfies the
\* join's conditions
JoinStandsOnMatch ==
    JoinOnPair =>
        /\ ChildrenOnRecords
        /\ \A i \in 1..Len(exec.x.fed_conds_) :
              PairSatisfies(exec.x.fed_conds_[i], RecordAt("L", exec.x.left_.rid_),
                            RecordAt("R", exec.x.right_.rid_))

\* Next returns the pair at the cursors and leaves the join as it is
JoinNextReadsPair ==
    (JoinOnPair /\ ChildrenOnRecords /\ ex_last'.op = "Next") =>
        /\ ex_last'.err = "ok"
        /\ ex_last'.ret = PairAtCursors
        /\ exec'.x = exec.x

\* C38: whenever is_end() of the join is false after beginTuple or nextTuple,
\* neither child is at its end, the pair at the cursors satisfies the join's
\* conditions, and Next returns the concatenation of that pair, never null,
\* and moves neither child.
C38_JoinStandsOnMatchingPair ==
    /\ []JoinStandsOnMatch
    /\ [][JoinNextReadsPair]_vars


\* ==================== the two maps of the catalog ====================

\* the names in the metadata map db_.tabs_, and in the handle map fhs_
TabNamesOf(db) == DOMAIN db.tabs_

HandleNamesOf(fhs) == DOMAIN fhs

\* C39: while a database is open the set of table names in the metadata map
\* db_.tabs_ equals the set of names in the record-file handle map fhs_,
\* whatever sequence of create_table and drop_table calls, failed ones
\* included, has been made
C39_TabsMatchHandles ==
    (DbOpen /\ ~crashed) => TabNamesOf(db_) = HandleNamesOf(fhs_)


\* ==================== an update that raises ====================

\* Next of the update has just raised IncompatibleType
UpdateRaisedIncompatibleType ==
    /\ exec.kind = "UpdateExecutor"
    /\ ex_last.op = "Next"
    /\ ex_last.err = "IncompatibleTypeError"

\* C40: when Next of the update raises IncompatibleType for one of its set
\* clauses, the call has changed no record of the table and no entry of an
\* index, for any number of Rids and set clauses.
C40_RaisingUpdateChangesNothing ==
    UpdateRaisedIncompatibleType =>
        /\ tables["t"] = yielded[1].fh
        /\ index = yielded[1].ihs


\* ==================== a further advance at the end ====================
\* A caller advances a record scan, a sequential scan, a sort or a join once
\* more although is_end() is true.

\* ---- RmScan::next, called on a scan at its end ----
\* rid_.page_no is RM_NO_PAGE = -1, which is below num_pages: the loop is
\* entered and fetch_page_handle(-1) passes its num_pages check and asks the
\* page cache for page -1, which the cache does not have.  rid_ stays as it is.
next_at_end ==
    /\ scanning
    /\ is_end
    /\ pin_delta' = ZeroPins
    /\ last' = Call("next", NoRid, 0, "PageNotExist", NoRid, 0)
                   @@ [fetched |-> <<rid_.page_no>>]
    /\ UNCHANGED <<file_hdr, pages, live, fresh_inserts, scan_vars>>

\* what a nextTuple() at the end did: the error it raised, and whether it
\* asked for a page or stepped its child
AtEndCall(err, fetches) ==
    [op |-> "nextTuple", err |-> err, ret |-> <<>>, fetches |-> fetches]

\* is_end() of the operator at hand
Operator_is_end ==
    CASE exec.kind = "SeqScanExecutor" -> SeqScanExecutor_is_end(exec.x)
      [] exec.kind = "NestedLoopJoinExecutor" -> exec.x.isend
      [] exec.kind = "SortExecutor" -> SortExecutor_is_end(exec.x)
      [] OTHER -> FALSE

\* ---- SeqScanExecutor::nextTuple on a scan at its end: scan_->next() ----
scan_nextTuple_at_end ==
    /\ exec.kind = "SeqScanExecutor"
    /\ exec.pc = "positioned"
    /\ SeqScanExecutor_is_end(exec.x)
    /\ LET x == SeqScanExecutor_nextTuple(exec.x, tables[exec.x.tab_name_])
       IN  /\ exec' = Running(x, AfterCall(x))
           /\ ex_last' = AtEndCall(x.err, TRUE)
    /\ UNCHANGED <<ex_rest, yielded>>

\* ---- NestedLoopJoinExecutor::nextTuple at the end: if (isend) return ----
join_advanced_at_end(j) ==
    /\ exec' = Joining(j, AfterCall(j))
    /\ ex_last' = AtEndCall(j.err, j # exec.x)
    /\ UNCHANGED <<ex_rest, yielded>>

join_nextTuple_at_end ==
    /\ exec.kind = "NestedLoopJoinExecutor"
    /\ exec.pc = "positioned"
    /\ exec.x.isend
    /\ join_advanced_at_end(NestedLoopJoinExecutor_nextTuple(exec.x))

\* ---- SortExecutor::nextTuple at the end ----
\* execution_sort.h leaves current_index_ alone; the part_000 copy, whose
\* is_end() is true throughout, walks its child once more.
sort_nextTuple_at_end ==
    /\ exec.kind = "SortExecutor"
    /\ exec.pc = "positioned"
    /\ SortExecutor_is_end(exec.x)
    /\ exec.x.copy = "part_000" => exec.x.tuple_num <= MaxSortLen
    /\ exec' = Sorting(SortExecutor_nextTuple(exec.x), "positioned")
    /\ ex_last' = AtEndCall("ok", exec.x.copy = "part_000" /\ exec.x.prev_ # <<>>)
    /\ UNCHANGED <<ex_rest, yielded>>

EndInit ==
    \/ Init
    \/ ScanInit /\ Len(exec.x.fed_conds_) <= 1
    \/ JoinInit /\ build.abstract = "executor_abstract.h" /\ build.stray = 0
    \/ SortInit /\ build.overflow = "exact"

EndNext ==
    \/ exec = NoExecutor /\ PlainNext
    \/ exec = NoExecutor /\ next_at_end /\ UNCHANGED other_vars
    \/ ScanNext
    \/ JoinNext
    \/ SortNext
    \/ scan_nextTuple_at_end
    \/ join_nextTuple_at_end
    \/ sort_nextTuple_at_end

EndSpec == EndInit /\ [][EndNext]_vars

\* a call of RmScan::next on a scan whose is_end() is true
ScanAdvancedAtEnd == scanning /\ is_end /\ last'.op = "next"

\* a call of nextTuple on an operator whose is_end() is true
OperatorAdvancedAtEnd ==
    /\ exec.kind \in {"SeqScanExecutor", "NestedLoopJoinExecutor", "SortExecutor"}
    /\ exec.pc = "positioned"
    /\ Operator_is_end
    /\ ex_last'.op = "nextTuple"

\* C37: once is_end() is true for a record scan, a sequential scan, a sort
\* or a nested-loop join, a further advance leaves is_end() true, fetches no
\* page and raises no error.
C37_AdvanceAtEndIsIdle ==
    [][/\ ScanAdvancedAtEnd =>
              /\ is_end'
              /\ last'.err = "ok"
              /\ last'.fetched = <<>>
       /\ OperatorAdvancedAtEnd =>
              /\ Operator_is_end'
              /\ ex_last'.err = "ok"
              /\ ~ex_last'.fetches]_vars


\* ==================== the locks of the record-file calls ====================
\* A call of RmFileHandle is followed statement by statement: the lock
\* request its first statement makes when it is given a Context, then the rest
\* of its body.  The lock manager is outside the sources; a request is granted
\* or raises TransactionAborted.  th holds the call each thread is in.
NotCalling == [pc |-> "idle"]

\* what the threads leave alone while they call into a record file
lk_rest == <<dm_vars, sm_vars, ex_vars, returned, log_fd_, log_file, wl_done>>

\* the request the first statement of a call makes, on the file's fd
LockRequested(op, rid) ==
    CASE op = "get_record" -> [mode |-> "shared", on |-> "record", rid |-> rid]
      [] op = "insert_record" -> [mode |-> "exclusive", on |-> "table", rid |-> NoRid]
      [] op \in {"delete_record", "update_record"} ->
             [mode |-> "exclusive", on |-> "record", rid |-> rid]

\* a call that makes its request behind its body
Statements_lock_last(op, context) ==
    IF context /\ op # "insert_record_rid" THEN <<"body", "lock">> ELSE <<"body">>

\* the statements of a call: "if (context != nullptr) context->lock_mgr_->
\* lock_...(...)" in front of the body; insert_record(rid, buf) takes no Context
Statements(op, context) ==
    IF context /\ op # "insert_record_rid" THEN <<"lock", "body">> ELSE <<"body">>

RecordFileOps ==
    {"get_record", "insert_record", "insert_record_rid", "delete_record", "update_record"}

\* a thread enters a call
rf_call(t, op, rid, context) ==
    /\ th[t].pc = "idle" \/ (th[t].pc = "called" /\ th[t].todo = <<>>)
    /\ th' = [th EXCEPT ![t] =
                 [pc |-> "called", op |-> op,
                  rid |-> IF op = "insert_record" THEN NoRid ELSE rid,
                  context |-> context /\ op # "insert_record_rid",
                  todo |-> Statements(op, context), requests |-> <<>>,
                  accessed |-> FALSE, err |-> "ok"]]
    /\ UNCHANGED <<rm_vars, lk_rest>>

\* the lock statement: the request, with whether the call has got at a page
\* by then; a request that raises ends the call
rf_lock(t, granted) ==
    /\ th[t].pc = "called"
    /\ th[t].todo # <<>>
    /\ Head(th[t].todo) = "lock"
    /\ th' = [th EXCEPT
                 ![t].requests = Append(@, [lock |-> LockRequested(th[t].op, th[t].rid),
                                            accessed |-> th[t].accessed]),
                 ![t].todo = IF granted THEN Tail(@) ELSE <<>>,
                 ![t].err = IF granted THEN "ok" ELSE "TransactionAborted"]
    /\ UNCHANGED <<rm_vars, lk_rest>>

\* the rest of the body: from fetch_page_handle / create_page_handle on
rf_body(t) ==
    /\ th[t].pc = "called"
    /\ th[t].todo # <<>>
    /\ Head(th[t].todo) = "body"
    /\ \/ th[t].op = "get_record" /\ get_record(th[t].rid)
       \/ th[t].op = "insert_record" /\ \E buf \in Payloads : insert_record(buf)
       \/ th[t].op = "insert_record_rid"
             /\ \E buf \in Payloads : insert_record_rid(th[t].rid, buf)
       \/ th[t].op = "delete_record" /\ delete_record(th[t].rid)
       \/ th[t].op = "update_record" /\ \E buf \in Payloads : update_record(th[t].rid, buf)
    /\ th' = [th EXCEPT ![t].todo = Tail(@),
                        ![t].accessed = th[t].op = "insert_record"
                                            \/ ~PageNotExist(th[t].rid.page_no),
                        ![t].err = last'.err]
    /\ UNCHANGED lk_rest

LockInit ==
    /\ Fs_Init
    /\ DiskManager_Init
    /\ SmManager_Init
    /\ RmFile_Init
    /\ file_hdr.num_records_per_page = 1
    /\ Exec_Init
    /\ th = [t \in Threads |-> NotCalling]
    /\ returned = [fd \in 0..(MAX_FD - 1) |-> <<>>]
    /\ log_file = <<>>
    /\ wl_done = {}

\* one thread calls; the calls of two threads at once are TxnSpec's
LockNext ==
    \/ \E op \in RecordFileOps, rid \in RidInputs, context \in BOOLEAN :
          rf_call("t1", op, rid, context)
    \/ \E granted \in BOOLEAN : rf_lock("t1", granted)
    \/ rf_body("t1")

LockSpec == LockInit /\ [][LockNext]_vars

\* the lock the claim names for a call
ClaimedLock(op, rid) ==
    IF op = "get_record" THEN [mode |-> "shared", on |-> "record", rid |-> rid]
    ELSE IF op = "insert_record" THEN [mode |-> "exclusive", on |-> "table", rid |-> NoRid]
    ELSE [mode |-> "exclusive", on |-> "record", rid |-> rid]

\* the requests of a call are as claimed, as far as the call has come
LocksAsClaimed(c) ==
    IF c.context /\ c.op # "insert_record_rid"
    THEN /\ Len(c.requests) <= 1
         /\ \A i \in 1..Len(c.requests) :
               /\ c.requests[i].lock = ClaimedLock(c.op, c.rid)
               /\ ~c.requests[i].accessed
         /\ (c.accessed \/ c.todo = <<>>) => Len(c.requests) = 1
    ELSE c.requests = <<>>

\* C33: given a Context, get_record requests a shared lock on (fd, rid),
\* update_record and delete_record an exclusive lock on (fd, rid), and
\* insert_record without Rid an exclusive lock on the table fd, each exactly
\* once per call and before the call reads or modifies a slot, a bitmap or a
\* page header; without Context, and in insert_record with a Rid, no lock is
\* requested.
C33_LocksRequestedFirst ==
    \A t \in Threads : th[t].pc = "called" => LocksAsClaimed(th[t])

\* a delete_record with a Context has removed a record, a get_record with a
\* Context has read one: each behind its one request
C33_Witness ==
    /\ th["t1"].pc = "called"
    /\ th["t1"].op \in {"delete_record", "get_record"}
    /\ th["t1"].context
    /\ th["t1"].todo = <<>>
    /\ th["t1"].accessed
    /\ th["t1"].err = "ok"
    /\ Len(th["t1"].requests) = 1


\* ==================== two transactions on one record file ====================
\* Two threads, each in a transaction of one insert_record or delete_record
\* with a Context, run their calls statement by statement.  A page is read and
\* written under the page cache's exclusion, one thread at a time; file_hdr_ is
\* a member of the shared RmFileHandle with no latch around it.  The lock
\* manager is outside the sources: an exclusive table lock conflicts with
\* every lock of another transaction on the table, two record locks conflict
\* on the same Rid, a conflicting request waits or raises TransactionAborted,
\* and a transaction holds its lock until it ends.
MaxRounds == 3      \* rounds of transactions in a run

TxnOps == {"insert_record", "delete_record"}

\* a thread that sits out round r
NoTxn(r) == [pc |-> "done", op |-> "none", err |-> "ok", round |-> r]

TheFile == [hdr |-> file_hdr, pages |-> pages]

Other(t) == CHOOSE u \in Threads : u # t

HoldsLock(t) == th[t].pc \in {"body", "link", "head"}

LocksConflict(a, b) == a.on = "table" \/ b.on = "table" \/ a.rid = b.rid

\* the transactions of a round start together, on distinct Rids
Txn(op, rid, buf, r) ==
    [pc |-> "lock", op |-> op, rid |-> IF op = "insert_record" THEN NoRid ELSE rid,
     buf |-> IF op = "insert_record" THEN buf ELSE 0, err |-> "ok", base |-> TheFile,
     round |-> r]

tx_begin ==
    /\ \A t \in Threads : th[t].pc \in {"idle", "done"} /\ th[t].round < MaxRounds
    /\ \E op1 \in TxnOps \cup {"none"}, op2 \in TxnOps \cup {"none"},
          rid1 \in RidInputs, rid2 \in RidInputs, buf \in Payloads :
          /\ op1 # "none" \/ op2 # "none"
          /\ (op1 = "delete_record" /\ op2 = "delete_record") => rid1 # rid2
          /\ th' = [t1 |-> IF op1 = "none" THEN NoTxn(th["t1"].round + 1)
                             ELSE Txn(op1, rid1, buf, th["t1"].round + 1),
                    t2 |-> IF op2 = "none" THEN NoTxn(th["t2"].round + 1)
                             ELSE Txn(op2, rid2, buf, th["t2"].round + 1)]
    /\ UNCHANGED <<rm_vars, lk_rest>>

\* the first statement of the call: the lock request
tx_lock(t) ==
    /\ th[t].pc = "lock"
    /\ IF HoldsLock(Other(t))
          /\ LocksConflict(LockRequested(th[t].op, th[t].rid),
                           LockRequested(th[Other(t)].op, th[Other(t)].rid))
       THEN th' = [th EXCEPT ![t].pc = "done", ![t].err = "TransactionAborted"]
       ELSE th' = [th EXCEPT ![t].pc = "body"]
    /\ UNCHANGED <<rm_vars, lk_rest>>

\* insert_record behind its table lock
tx_insert_record(t) ==
    /\ th[t].pc = "body"
    /\ th[t].op = "insert_record"
    /\ insert_record(th[t].buf)
    /\ th' = [th EXCEPT ![t].pc = "done"]
    /\ UNCHANGED lk_rest

\* delete_record up to the call of release_page_handle: the page is fetched,
\* the bit tested and reset, num_records decremented
tx_delete_record(t) ==
    /\ th[t].pc = "body"
    /\ th[t].op = "delete_record"
    /\ IF PageNotExist(th[t].rid.page_no)
       THEN /\ th' = [th EXCEPT ![t].pc = "done", ![t].err = "PageNotExist"]
            /\ UNCHANGED pages
       ELSE IF record_absent(pages, th[t].rid)
       THEN /\ th' = [th EXCEPT ![t].pc = "done", ![t].err = "RecordNotFound"]
            /\ UNCHANGED pages
       ELSE /\ pages' = [pages EXCEPT
                            ![th[t].rid.page_no].bitmap = Bitmap_reset(@, th[t].rid.slot_no),
                            ![th[t].rid.page_no].num_records = @ - 1]
            /\ th' = [th EXCEPT ![t].pc =
                         IF pages[th[t].rid.page_no].num_records - 1 = N - 1
                         THEN "link" ELSE "done"]
    /\ UNCHANGED <<file_hdr, scanning, rid_, pin_delta, last, live, visited,
                   fresh_inserts, lk_rest>>

\* release_page_handle, first statement:
\* page_hdr->next_free_page_no = file_hdr_.first_free_page_no
tx_release_link(t) ==
    /\ th[t].pc = "link"
    /\ pages' = [pages EXCEPT
                    ![th[t].rid.page_no].next_free_page_no = file_hdr.first_free_page_no]
    /\ th' = [th EXCEPT ![t].pc = "head"]
    /\ UNCHANGED <<file_hdr, scanning, rid_, pin_delta, last, live, visited,
                   fresh_inserts, lk_rest>>

\* release_page_handle, second statement:
\* file_hdr_.first_free_page_no = page_no; the call returns
tx_release_head(t) ==
    /\ th[t].pc = "head"
    /\ file_hdr' = [file_hdr EXCEPT !.first_free_page_no = th[t].rid.page_no]
    /\ th' = [th EXCEPT ![t].pc = "done"]
    /\ UNCHANGED <<pages, scanning, rid_, pin_delta, last, live, visited,
                   fresh_inserts, lk_rest>>

TxnInit ==
    /\ Fs_Init
    /\ DiskManager_Init
    /\ SmManager_Init
    /\ RmFile_Init
    /\ Exec_Init
    /\ th = [t \in Threads |-> [pc |-> "idle", round |-> 0]]
    /\ returned = [fd \in 0..(MAX_FD - 1) |-> <<>>]
    /\ log_file = <<>>
    /\ wl_done = {}

TxnNext ==
    \/ tx_begin
    \/ \E t \in Threads : tx_lock(t)
    \/ \E t \in Threads : tx_insert_record(t)
    \/ \E t \in Threads : tx_delete_record(t)
    \/ \E t \in Threads : tx_release_link(t)
    \/ \E t \in Threads : tx_release_head(t)

TxnSpec == TxnInit /\ [][TxnNext]_vars

\* ---- what the calls do when they run one after the other ----
DeleteOn(f, rid) ==
    IF rid.page_no >= f.hdr.num_pages \/ record_absent(f.pages, rid) THEN f
    ELSE LET pgs == [f.pages EXCEPT
                        ![rid.page_no].bitmap = Bitmap_reset(@, rid.slot_no),
                        ![rid.page_no].num_records = @ - 1]
         IN  IF pgs[rid.page_no].num_records = f.hdr.num_records_per_page - 1
             THEN release_page_handle(f.hdr, pgs, rid.page_no)
             ELSE [hdr |-> f.hdr, pages |-> pgs]

InsertOn(f, buf) ==
    LET h == create_page_handle(f.hdr, f.pages)
        p == h.page_no
        slot_no == Bitmap_first_bit(FALSE, h.pages[p].bitmap, f.hdr.num_records_per_page)
        pg == [WriteSlot(h.pages[p], slot_no, buf) EXCEPT
                  !.bitmap = Bitmap_set(@, slot_no),
                  !.num_records = @ + 1]
    IN  [hdr |-> UnlinkIfFull(h.hdr, pg), pages |-> [h.pages EXCEPT ![p] = pg]]

\* the file after the transaction of t, run alone on file f
TxnOn(t, f) ==
    IF th[t].op = "none" \/ th[t].err = "TransactionAborted" THEN f
    ELSE IF th[t].op = "insert_record" THEN InsertOn(f, th[t].buf)
    ELSE DeleteOn(f, th[t].rid)

RoundBase == IF th["t1"].op # "none" THEN th["t1"].base ELSE th["t2"].base

SerialOutcomes ==
    {TxnOn("t2", TxnOn("t1", RoundBase)), TxnOn("t1", TxnOn("t2", RoundBase))}

RoundOver == \A t \in Threads : th[t].pc = "done"

\* C34: when two transactions concurrently run insert_record or
\* delete_record on one record file, each with a Context and on distinct
\* Rids, the file ends up as some serial order of the two calls leaves it (no
\* update of first_free_page_no, num_pages or a page's num_records is lost),
\* and I2 and I3 hold.
C34_ConcurrentCallsSerialize ==
    RoundOver =>
        /\ TheFile \in SerialOutcomes
        /\ \A p \in RecordPages :
              /\ pages[p].num_records = Cardinality(SetSlots(pages[p]))
              /\ (p \in FreeListPages) <=> (pages[p].num_records < N)


\* ==================== a scan among inserts and deletes ====================
\* A scan is followed page by page: every turn of the loop of RmScan::next
\* fetches one page and searches its bitmap, and between two turns other
\* operations insert and delete records of the file.  th["t1"] holds where the
\* scan is (stopped on a Rid or at its end, or walking inside next()), and as
\* history the Rids that were inserted ahead of the cursor and not deleted
\* since.
ScanAt(pc, ahead) == [pc |-> pc, ahead |-> ahead]

\* one turn of the loop that keeps slot_no when it moves to the next page
RmScan_examine_keeps_slot(rid, hdr, pgs) ==
    LET slot_no == Bitmap_next_bit(TRUE, pgs[rid.page_no].bitmap,
                                   hdr.num_records_per_page, rid.slot_no)
    IN  IF slot_no < hdr.num_records_per_page
        THEN [rid |-> Rid(rid.page_no, slot_no), found |-> TRUE]
        ELSE [rid |-> Rid(rid.page_no + 1, slot_no), found |-> FALSE]

\* ---- RmScan::next: one turn of its loop, on the page of the cursor ----
RmScan_examine(rid, hdr, pgs) ==
    LET slot_no == Bitmap_next_bit(TRUE, pgs[rid.page_no].bitmap,
                                   hdr.num_records_per_page, rid.slot_no)
    IN  IF slot_no < hdr.num_records_per_page
        THEN [rid |-> Rid(rid.page_no, slot_no), found |-> TRUE]
        ELSE [rid |-> Rid(rid.page_no + 1, RM_NO_PAGE), found |-> FALSE]

rs_rest == <<file_hdr, pages, pin_delta, last, live, fresh_inserts, lk_rest>>

\* ---- RmScan::RmScan up to its call of next() ----
rs_open ==
    /\ ~scanning
    /\ scanning' = TRUE
    /\ rid_' = Rid(RM_FIRST_RECORD_PAGE, RM_NO_PAGE)
    /\ visited' = <<>>
    /\ th' = [th EXCEPT !["t1"] = ScanAt("walking", {})]
    /\ UNCHANGED rs_rest

\* the caller calls next() on a scan that is not at its end
rs_next ==
    /\ scanning
    /\ th["t1"].pc = "stopped"
    /\ ~is_end
    /\ th' = [th EXCEPT !["t1"].pc = "walking"]
    /\ UNCHANGED <<scan_vars, rs_rest>>

rs_examined(r) ==
    /\ rid_' = r.rid
    /\ visited' = IF r.found THEN Append(visited, r.rid) ELSE visited
    /\ th' = [th EXCEPT !["t1"].pc = IF r.found THEN "stopped" ELSE "walking"]

\* the loop condition and, if it holds, one turn of the loop
rs_step ==
    /\ scanning
    /\ th["t1"].pc = "walking"
    /\ IF rid_.page_no < file_hdr.num_pages
       THEN rs_examined(RmScan_examine(rid_, file_hdr, pages))
       ELSE /\ rid_' = [rid_ EXCEPT !.page_no = RM_NO_PAGE]
            /\ th' = [th EXCEPT !["t1"].pc = "stopped"]
            /\ UNCHANGED visited
    /\ UNCHANGED <<scanning, rs_rest>>

rs_close ==
    /\ scanning
    /\ th["t1"].pc = "stopped"
    /\ scanning' = FALSE
    /\ rid_' = NoRid
    /\ visited' = <<>>
    /\ th' = [th EXCEPT !["t1"] = ScanAt("idle", {})]
    /\ UNCHANGED rs_rest

\* the Rid lies ahead of the cursor of a scan that has not ended
AheadOfCursor(rid) ==
    /\ scanning
    /\ rid_.page_no # RM_NO_PAGE
    /\ RidBefore(rid_, rid)

\* another operation inserts a record
rs_insert_record ==
    /\ \E buf \in Payloads : insert_record(buf)
    /\ th' = [th EXCEPT !["t1"].ahead =
                 IF AheadOfCursor(last'.ret_rid) THEN @ \cup {last'.ret_rid} ELSE @]
    /\ UNCHANGED lk_rest

\* another operation deletes a record
rs_delete_record ==
    /\ \E rid \in RidInputs :
          /\ delete_record(rid)
          /\ th' = [th EXCEPT !["t1"].ahead =
                       IF last'.err = "ok" THEN @ \ {rid} ELSE @]
    /\ UNCHANGED lk_rest

MixInit ==
    /\ Fs_Init
    /\ DiskManager_Init
    /\ SmManager_Init
    /\ RmFile_Init
    /\ Exec_Init
    /\ th = [t \in Threads |-> IF t = "t1" THEN ScanAt("idle", {}) ELSE NotCalling]
    /\ returned = [fd \in 0..(MAX_FD - 1) |-> <<>>]
    /\ log_file = <<>>
    /\ wl_done = {}

MixNext ==
    \/ rs_open
    \/ rs_next
    \/ rs_step
    \/ rs_close
    \/ rs_insert_record
    \/ rs_delete_record

MixSpec == MixInit /\ [][MixNext]_vars

\* the scan has stopped on ascending Rids
StopsAscend ==
    \A i \in 1..Len(visited) : \A k \in 1..Len(visited) :
        i < k => RidBefore(visited[i], visited[k])

\* a record inserted ahead of the cursor and not deleted is still ahead of
\* the cursor, or the scan has stopped on it
InsertedAheadVisited ==
    scanning => \A rid \in th["t1"].ahead : AheadOfCursor(rid) \/ rid \in VisitedSet

\* a step of the scan moves the cursor forward or to the end, and stops on a
\* Rid only if its bit is set in the page as the step finds it
CursorMovesForward ==
    (scanning /\ scanning' /\ rid_' # rid_) =>
        /\ rid_'.page_no = RM_NO_PAGE \/ RidBefore(rid_, rid_')
        /\ Len(visited') > Len(visited) =>
              /\ visited'[Len(visited')] = rid_'
              /\ Bitmap_is_set(pages[rid_'.page_no].bitmap, rid_'.slot_no)

====
